---- MODULE Spec2Model ----
(***************************************************************************)
(* A model of the hoedown Rust binding: the Render trait and its defaults  *)
(* (src/renderer/mod.rs), the trampolines that carry the native callbacks  *)
(* to a Render value (src/wrappers.rs), the Html renderer that hands the   *)
(* native callback table to the document (src/renderer/html.rs), the       *)
(* Document driver (src/document.rs) and the Markdown value                *)
(* (src/markdown.rs).  The scanner and the native HTML callbacks live in   *)
(* the libhoedown submodule; they are modelled on a subset of the syntax.  *)
(*                                                                         *)
(* A buffer is a sequence of strings: one string per source byte, and one  *)
(* string per fixed piece of text a renderer writes ("<p>", "[EMPHASIS] ").*)
(***************************************************************************)
EXTENDS Integers, Sequences, FiniteSets, TLC

VARIABLES
    md,       \* the Markdown value: contents, extensions, max_nesting
    rndr,     \* the renderer: kind, native state of Html / Html::toc
    output,   \* the caller's output buffer
    doc,      \* the Document of the render in progress, or NoDoc
    pc,       \* position of the operation in progress, or idle
    calls,    \* callbacks invoked by the operation in progress, in order
    script,   \* the operations the caller has yet to perform
    hist,     \* completed operations: renderer before, buffer before, appended
    heap,     \* the native hoedown_buffer values, by address
    bufs,     \* the Buffer values of the caller: address, is_owned, dropped
    io        \* the operation on a Buffer in progress or just made, its result

vars == <<md, rndr, output, doc, pc, calls, script, hist, heap, bufs, io>>

\* the state of a render
render_vars == <<md, rndr, output, doc, pc, calls, script, hist>>

\* the state of the Buffer values
buffer_vars == <<heap, bufs, io>>

----------------------------------------------------------------------------
(* Sequences of bytes *)

Cat(s, t) == s \o t

Tail0(s, n) == SubSeq(s, n + 1, Len(s))

Head0(s, n) == SubSeq(s, 1, n)

IsPrefix(s, t) == Len(s) <= Len(t) /\ SubSeq(t, 1, Len(s)) = s

Appended(before, after) ==
    IF IsPrefix(before, after) THEN Tail0(after, Len(before)) ELSE <<"?">>

----------------------------------------------------------------------------
(* Extension bits, src/extensions.rs *)

TABLES == 1
FENCED_CODE == 2
FOOTNOTES == 4
AUTOLINK == 8
STRIKETHROUGH == 16
UNDERLINE == 32
HIGHLIGHT == 64
QUOTE == 128
SUPERSCRIPT == 256
MATH == 512
NO_INTRA_EMPHASIS == 2048
SPACE_HEADERS == 4096
MATH_EXPLICIT == 8192
DISABLE_INDENTED_CODE == 16384

\* mutation: highlight on the bit of strikethrough
Extension_shared_bit ==
    [TABLES |-> TABLES, FENCED_CODE |-> FENCED_CODE, FOOTNOTES |-> FOOTNOTES,
     AUTOLINK |-> AUTOLINK, STRIKETHROUGH |-> STRIKETHROUGH,
     UNDERLINE |-> UNDERLINE, HIGHLIGHT |-> STRIKETHROUGH, QUOTE |-> QUOTE,
     SUPERSCRIPT |-> SUPERSCRIPT, MATH |-> MATH,
     NO_INTRA_EMPHASIS |-> NO_INTRA_EMPHASIS, SPACE_HEADERS |-> SPACE_HEADERS,
     MATH_EXPLICIT |-> MATH_EXPLICIT,
     DISABLE_INDENTED_CODE |-> DISABLE_INDENTED_CODE]

\* flags Extension: u32, the named constants and their bits
Extension ==
    [TABLES |-> TABLES, FENCED_CODE |-> FENCED_CODE, FOOTNOTES |-> FOOTNOTES,
     AUTOLINK |-> AUTOLINK, STRIKETHROUGH |-> STRIKETHROUGH,
     UNDERLINE |-> UNDERLINE, HIGHLIGHT |-> HIGHLIGHT, QUOTE |-> QUOTE,
     SUPERSCRIPT |-> SUPERSCRIPT, MATH |-> MATH,
     NO_INTRA_EMPHASIS |-> NO_INTRA_EMPHASIS, SPACE_HEADERS |-> SPACE_HEADERS,
     MATH_EXPLICIT |-> MATH_EXPLICIT,
     DISABLE_INDENTED_CODE |-> DISABLE_INDENTED_CODE]

\* the | and & of two u32, bit by bit
RECURSIVE BitOp(_, _, _)
BitOp(a, b, or) ==
    IF a = 0 /\ b = 0 THEN 0
    ELSE LET bit == IF or THEN (IF a % 2 = 1 \/ b % 2 = 1 THEN 1 ELSE 0)
                    ELSE (IF a % 2 = 1 /\ b % 2 = 1 THEN 1 ELSE 0)
         IN bit + 2 * BitOp(a \div 2, b \div 2, or)

\* Extension::empty()
Extension_empty == [bits |-> 0]

\* BitOr for Extension
Extension_bitor(a, b) == [bits |-> BitOp(a.bits, b.bits, TRUE)]

\* the union of the flags named in S
RECURSIVE Extension_of(_)
Extension_of(S) ==
    IF S = {} THEN Extension_empty
    ELSE LET n == CHOOSE x \in S : TRUE
         IN Extension_bitor([bits |-> Extension[n]], Extension_of(S \ {n}))

\* Extension::all()
Extension_all == Extension_of(DOMAIN Extension)

\* Extension::from_bits: None when a bit is set that no flag names
Extension_from_bits(bits) ==
    IF BitOp(bits, Extension_all.bits, FALSE) = bits THEN <<[bits |-> bits]>>
    ELSE <<>>

\* mutation: a flag counts as set when any flag at or above it is
contains_at_least(bits, flag) == bits >= flag

\* bitflags `contains` for a single bit
contains(bits, flag) == (bits \div flag) % 2 = 1

----------------------------------------------------------------------------
(* The Render trait: method names by category, src/renderer/mod.rs *)

BlockMethods ==
    {"code_block", "quote_block", "header", "horizontal_rule", "list",
     "list_item", "paragraph", "table", "table_header", "table_body",
     "table_row", "table_cell", "footnotes", "footnote_definition",
     "html_block"}

SpanMethods ==
    {"autolink", "code_span", "double_emphasis", "emphasis", "underline",
     "highlight", "quote_span", "image", "line_break", "link",
     "triple_emphasis", "strikethrough", "superscript",
     "footnote_reference", "math", "html_span"}

LowLevelMethods == {"entity", "normal_text"}

MiscMethods == {"before_render", "after_render"}

Methods == BlockMethods \cup SpanMethods \cup LowLevelMethods \cup MiscMethods

\* The arguments of a callback: text is the content / text / alt buffer,
\* link the link / language buffer, title the title buffer, n the level,
\* number, flags or display mode, flag the inline_render boolean.  A buffer
\* argument is the bytes of the buffer the pointer leads to; null holds the
\* names of the buffer arguments whose pointer is null.
Args(text, link, title, n) ==
    [text |-> text, link |-> link, title |-> title, n |-> n, flag |-> FALSE,
     null |-> {}]

NoArgs == Args(<<>>, <<>>, <<>>, 0)

TextArgs(text) == Args(text, <<>>, <<>>, 0)

\* What a method leaves behind: the buffer, the boolean a span method
\* returns (FALSE for the others), and the renderer after the call.
Ret(r, ob, ret) == [r |-> r, ob |-> ob, ret |-> ret]

\* Buffer::pipe, src/buffer.rs: append the bytes of another buffer
pipe(ob, text) == Cat(ob, text)

\* Do(f, x): the call of f with the arguments x, for the methods of the
\* renderers and the functions of the scanner, which call one another
RECURSIVE Do(_, _)

----------------------------------------------------------------------------
(* Default methods of the Render trait *)

\* mutation: a block default that copies the content of the block
Render_block_piped(r, ob, a) == Ret(r, pipe(ob, a.text), FALSE)

\* every block-level default has the empty body
Render_block(r, ob, a) == Ret(r, ob, FALSE)

\* every span-level default is `false`
Render_span(r, ob, a) == Ret(r, ob, FALSE)

Render_entity(r, ob, a) == Ret(r, pipe(ob, a.text), FALSE)

\* mutation: a normal_text default that writes nothing
Render_normal_text_dropped(r, ob, a) == Ret(r, ob, FALSE)

Render_normal_text(r, ob, a) == Ret(r, pipe(ob, a.text), FALSE)

Render_before_render(r, ob, a) == Ret(r, ob, FALSE)

Render_after_render(r, ob, a) == Ret(r, ob, FALSE)

Render_default(r, m, ob, a) ==
    CASE m \in BlockMethods -> Render_block(r, ob, a)
      [] m \in SpanMethods -> Render_span(r, ob, a)
      [] m = "entity" -> Render_entity(r, ob, a)
      [] m = "normal_text" -> Render_normal_text(r, ob, a)
      [] m = "before_render" -> Render_before_render(r, ob, a)
      [] m = "after_render" -> Render_after_render(r, ob, a)

----------------------------------------------------------------------------
(* Renderers.  A renderer value is a record: its kind, and for the two     *)
(* native kinds the flags and the table-of-contents state.                 *)

\* Html flags, src/renderer/html.rs
SKIP_HTML == 1
ESCAPE == 2
HARD_WRAP == 4
USE_XHTML == 8

\* html_toc_data, src/ffi.rs
toc_data(nesting_level) ==
    [header_count |-> 0, current_level |-> 0, level_offset |-> 0,
     nesting_level |-> nesting_level]

Renderer(kind, flags, nesting_level) ==
    [kind |-> kind, flags |-> flags, toc |-> toc_data(nesting_level)]

\* a unit struct implementing Render with no method overridden
Plain == Renderer("Plain", 0, 0)

\* renderer::trace::Trace
Trace == Renderer("Trace", 0, 0)

\* the renderers of tests/trait.rs
DocRenderer == Renderer("DocRenderer", 0, 0)

BlockRenderer == Renderer("BlockRenderer", 0, 0)

LowLevelRenderer == Renderer("LowLevelRenderer", 0, 0)

SpanRenderer == Renderer("SpanRenderer", 0, 0)

UnderlineRenderer == Renderer("UnderlineRenderer", 0, 0)

\* Html::new(flags, nesting_level)
Html_new(flags, nesting_level) == Renderer("Html", flags, nesting_level)

\* mutation: a table of contents whose counter starts at one
Html_toc_one(nesting_level) ==
    [Renderer("Toc", 0, nesting_level) EXCEPT !.toc.header_count = 1]

\* Html::toc(nesting_level)
Html_toc(nesting_level) == Renderer("Toc", 0, nesting_level)

NativeKinds == {"Html", "Toc"}

\* the name Trace and BlockRenderer print for a block method
Upper(m) ==
    CASE m = "code_block" -> "CODE_BLOCK"
      [] m = "quote_block" -> "QUOTE_BLOCK"
      [] m = "header" -> "HEADER"
      [] m = "horizontal_rule" -> "HORIZONTAL_RULE"
      [] m = "list" -> "LIST"
      [] m = "list_item" -> "LIST_ITEM"
      [] m = "paragraph" -> "PARAGRAPH"
      [] m = "table" -> "TABLE"
      [] m = "table_header" -> "TABLE_HEADER"
      [] m = "table_body" -> "TABLE_BODY"
      [] m = "table_row" -> "TABLE_ROW"
      [] m = "table_cell" -> "TABLE_CELL"
      [] m = "footnotes" -> "FOOTNOTES"
      [] m = "footnote_definition" -> "FOOTNOTE_DEFINITION"
      [] m = "html_block" -> "HTML_BLOCK"
      [] OTHER -> m

\* Trace overrides the fifteen block methods
Trace_method(r, m, ob, a) ==
    IF m \in BlockMethods
    THEN Ret(r, Cat(ob, <<"MISSING ", Upper(m), " HANDLER\n">>), FALSE)
    ELSE Do("Render_default", <<r, m, ob, a>>)

\* Option<&Buffer>: None, or Some(buffer)
None == <<>>

Some(b) == <<b>>

\* `b.and_then(|b| b.to_str().ok()).unwrap_or("")`
unwrap_or_empty(b) == IF b = None THEN <<>> ELSE b[1]

Ordered(n) == IF n % 2 = 1 THEN "true" ELSE "false"

\* BlockRenderer overrides paragraph and twelve block methods; the language
\* of a code block reaches it as an Option
BlockRenderer_method(r, m, ob, a) ==
    CASE m = "paragraph" -> Ret(r, pipe(ob, a.text), FALSE)
      [] m = "code_block" ->
            Ret(r, Cat(ob, <<"[CODE_BLOCK language=">>
                            \o unwrap_or_empty(a.link) \o <<"] ">> \o a.text),
                FALSE)
      [] m = "header" ->
            Ret(r, Cat(ob, <<"[HEADER level=", ToString(a.n), "] ">> \o a.text),
                FALSE)
      [] m = "horizontal_rule" -> Ret(r, Cat(ob, <<"[HORIZONTAL_RULE]">>), FALSE)
      [] m = "list" ->
            Ret(r, Cat(ob, <<"[LIST ordered=", Ordered(a.n), "]\n">> \o a.text),
                FALSE)
      [] m = "list_item" ->
            Ret(r, Cat(ob, <<"[LISTITEM ordered=", Ordered(a.n), "] ">>
                            \o a.text), FALSE)
      [] m = "table" -> Ret(r, Cat(ob, <<"[TABLE]\n">> \o a.text), FALSE)
      [] m = "table_header" ->
            Ret(r, Cat(ob, <<"[TABLE_HEADER]">> \o a.text), FALSE)
      [] m = "table_body" ->
            Ret(r, Cat(ob, <<"\n[TABLE_BODY]">> \o a.text), FALSE)
      [] m = "table_row" ->
            Ret(r, Cat(ob, <<"\n[TABLE_ROW]\n">> \o a.text), FALSE)
      [] m = "table_cell" ->
            Ret(r, Cat(ob, <<"[TABLE_CELL text=">> \o a.text \o <<"]">>), FALSE)
      [] m \in {"html_block", "quote_block"} ->
            Ret(r, Cat(ob, <<"[", Upper(m), "] ">> \o a.text), FALSE)
      [] OTHER -> Do("Render_default", <<r, m, ob, a>>)

\* DocRenderer overrides paragraph, before_render, after_render
DocRenderer_method(r, m, ob, a) ==
    CASE m = "paragraph" -> Ret(r, pipe(ob, a.text), FALSE)
      [] m = "before_render" -> Ret(r, Cat(ob, <<"One.\n">>), FALSE)
      [] m = "after_render" -> Ret(r, Cat(ob, <<"\nFive.">>), FALSE)
      [] OTHER -> Do("Render_default", <<r, m, ob, a>>)

\* LowLevelRenderer overrides paragraph, entity, normal_text
LowLevelRenderer_method(r, m, ob, a) ==
    CASE m = "paragraph" -> Ret(r, pipe(ob, a.text), FALSE)
      [] m = "entity" -> Ret(r, Cat(ob, <<"[ENTITY] ">> \o a.text), FALSE)
      [] m = "normal_text" ->
            Ret(r, Cat(ob, <<"[NORMAL_TEXT] ">> \o a.text), FALSE)
      [] OTHER -> Do("Render_default", <<r, m, ob, a>>)

\* UnderlineRenderer overrides paragraph and underline
UnderlineRenderer_method(r, m, ob, a) ==
    CASE m = "paragraph" -> Ret(r, pipe(ob, a.text), FALSE)
      [] m = "underline" -> Ret(r, Cat(ob, <<"[UNDERLINE] ">> \o a.text), TRUE)
      [] OTHER -> Do("Render_default", <<r, m, ob, a>>)

AutoLinkName(n) == IF n = 2 THEN "Email" ELSE "Normal"

\* SpanRenderer overrides paragraph and thirteen span methods
SpanRenderer_method(r, m, ob, a) ==
    CASE m = "paragraph" -> Ret(r, pipe(ob, a.text), FALSE)
      [] m = "line_break" -> Ret(r, Cat(ob, <<"[LINE_BREAK]">>), TRUE)
      [] m = "autolink" ->
            Ret(r, Cat(ob, <<"[AUTOLINK type=", AutoLinkName(a.n), "] ">>
                            \o a.text), TRUE)
      [] m = "code_span" -> Ret(r, Cat(ob, <<"[CODE_SPAN] ">> \o a.text), TRUE)
      [] m = "double_emphasis" ->
            Ret(r, Cat(ob, <<"[DOUBLE_EMPHASIS] ">> \o a.text), TRUE)
      [] m = "emphasis" -> Ret(r, Cat(ob, <<"[EMPHASIS] ">> \o a.text), TRUE)
      [] m = "highlight" -> Ret(r, Cat(ob, <<"[HIGHLIGHT] ">> \o a.text), TRUE)
      [] m = "image" ->
            Ret(r, Cat(ob, <<"[IMAGE link=">> \o a.link \o <<" title=">>
                            \o a.title \o <<" alt=">> \o a.text \o <<"]">>),
                TRUE)
      [] m = "link" ->
            Ret(r, Cat(ob, <<"[LINK link=">> \o a.link \o <<" title=">>
                            \o a.title \o <<"] ">> \o a.text), TRUE)
      [] m = "quote_span" -> Ret(r, Cat(ob, <<"[QUOTE] ">> \o a.text), TRUE)
      [] m = "html_span" -> Ret(r, Cat(ob, <<"[HTML_SPAN] ">> \o a.text), TRUE)
      [] m = "strikethrough" ->
            Ret(r, Cat(ob, <<"[STRIKETHROUGH] ">> \o a.text), TRUE)
      [] m = "superscript" ->
            Ret(r, Cat(ob, <<"[SUPERSCRIPT] ">> \o a.text), TRUE)
      [] m = "triple_emphasis" ->
            Ret(r, Cat(ob, <<"[TRIPLE_EMPHASIS] ">> \o a.text), TRUE)
      [] OTHER -> Do("Render_default", <<r, m, ob, a>>)

----------------------------------------------------------------------------
(* The Wrapper trait and wrap!, src/renderer/wrapper.rs.  A wrapping       *)
(* renderer holds its base; over names the method of Wrapper its impl      *)
(* overrides, "" when it overrides none.                                   *)

Wrapped(base, over) == [kind |-> "Wrapper", base |-> base, over |-> over]

\* Wrapper::base
Wrapper_base(r) == r.base

\* the override of HtmlWrapper in tests/trait.rs: the content, when there
\* is one, between two marks, and true
HtmlWrapper_override(r, m, ob, a) ==
    Ret(r,
        IF "text" \in a.null THEN ob
        ELSE Cat(ob, <<"~~">> \o a.text \o <<"~~">>),
        m \in SpanMethods)

\* mutation: a provided method that calls the base and answers false
Wrapper_provided_unanswered(r, m, ob, a) ==
    LET res == Do("Method", <<Wrapper_base(r), m, ob, a>>)
    IN Ret([r EXCEPT !.base = res.r], res.ob, FALSE)

\* the provided methods of Wrapper: `self.base().m(ob, ..)`
Wrapper_provided(r, m, ob, a) ==
    LET res == Do("Method", <<Wrapper_base(r), m, ob, a>>)
    IN Ret([r EXCEPT !.base = res.r], res.ob, res.ret)

\* the method m of the impl of Wrapper
Wrapper_method(r, m, ob, a) ==
    IF m = r.over THEN HtmlWrapper_override(r, m, ob, a)
    ELSE Wrapper_provided(r, m, ob, a)

\* the impl of Render that wrap! writes: `Wrapper::m(self, output, ..)`
wrap(r, m, ob, a) == Wrapper_method(r, m, ob, a)

----------------------------------------------------------------------------
(* The native HTML renderer (libhoedown, html.c): the callbacks that       *)
(* hoedown_html_renderer_new and hoedown_html_toc_renderer_new register.   *)
(* A native callback returns the renderer (its toc state), the buffer and  *)
(* an int.                                                                 *)

NRet(r, ob, ret) == [r |-> r, ob |-> ob, ret |-> ret]

escape_byte(c) ==
    CASE c = "&" -> "&amp;"
      [] c = "<" -> "&lt;"
      [] c = ">" -> "&gt;"
      [] c = "\"" -> "&quot;"
      [] c = "'" -> "&#39;"
      [] OTHER -> c

escape_html(text) == [i \in 1..Len(text) |-> escape_byte(text[i])]

IsSpace(c) == c \in {" ", "\n"}

RECURSIVE SkipSpace(_)
SkipSpace(text) ==
    IF text # <<>> /\ IsSpace(Head(text)) THEN SkipSpace(Tail(text)) ELSE text

\* a block callback separates itself from what the buffer already holds
BlockSep(ob) == IF Len(ob) > 0 THEN Cat(ob, <<"\n">>) ELSE ob

Xhtml(r, plain, closed) == IF contains(r.flags, USE_XHTML) THEN closed ELSE plain

rndr_paragraph(r, ob, a) ==
    LET body == SkipSpace(a.text)
    IN IF body = <<>> THEN NRet(r, BlockSep(ob), 0)
       ELSE NRet(r, BlockSep(ob) \o <<"<p>">> \o body \o <<"</p>\n">>, 0)

rndr_header(r, ob, a) ==
    IF a.n <= r.toc.nesting_level
    THEN NRet([r EXCEPT !.toc.header_count = @ + 1],
              BlockSep(ob)
                \o <<"<h", ToString(a.n), " id=\"toc_",
                     ToString(r.toc.header_count), "\">">>
                \o a.text \o <<"</h", ToString(a.n), ">\n">>, 0)
    ELSE NRet(r, BlockSep(ob) \o <<"<h", ToString(a.n), ">">> \o a.text
                   \o <<"</h", ToString(a.n), ">\n">>, 0)

rndr_blockquote(r, ob, a) ==
    NRet(r, BlockSep(ob) \o <<"<blockquote>\n">> \o a.text
              \o <<"</blockquote>\n">>, 0)

rndr_hrule(r, ob, a) ==
    NRet(r, BlockSep(ob) \o <<Xhtml(r, "<hr>\n", "<hr/>\n")>>, 0)

rndr_blockcode(r, ob, a) ==
    NRet(r, BlockSep(ob)
              \o (IF a.link = <<>> THEN <<"<pre><code>">>
                  ELSE <<"<pre><code class=\"language-">>
                         \o escape_html(a.link) \o <<"\">">>)
              \o escape_html(a.text) \o <<"</code></pre>\n">>, 0)

\* the text without the newlines that open and close it
RECURSIVE TrimNewlines(_)
TrimNewlines(text) ==
    IF text # <<>> /\ Head(text) = "\n" THEN TrimNewlines(Tail(text))
    ELSE IF text # <<>> /\ text[Len(text)] = "\n"
    THEN TrimNewlines(SubSeq(text, 1, Len(text) - 1))
    ELSE text

rndr_raw_block(r, ob, a) ==
    LET text == TrimNewlines(a.text)
    IN IF contains(r.flags, SKIP_HTML) \/ text = <<>> THEN NRet(r, ob, 0)
       ELSE IF contains(r.flags, ESCAPE)
       THEN NRet(r, BlockSep(ob) \o escape_html(text) \o <<"\n">>, 0)
       ELSE NRet(r, BlockSep(ob) \o text \o <<"\n">>, 0)

\* list (a.n has bit ORDERED), list item, tables, footnotes
rndr_container(r, ob, a, open, close) ==
    NRet(r, BlockSep(ob) \o <<open>> \o a.text \o <<close>>, 0)

rndr_inner(r, ob, a, open, close) ==
    NRet(r, ob \o <<open>> \o a.text \o <<close>>, 0)

rndr_footnote_def(r, ob, a) ==
    NRet(r, ob \o <<"\n<li id=\"fn", ToString(a.n), "\">\n">> \o a.text
              \o <<"</li>\n">>, 0)

\* the span callbacks that wrap their content in a tag
rndr_tag(r, ob, a, open, close) ==
    IF a.text = <<>> THEN NRet(r, ob, 0)
    ELSE NRet(r, ob \o <<open>> \o a.text \o <<close>>, 1)

rndr_codespan(r, ob, a) ==
    NRet(r, ob \o <<"<code>">> \o escape_html(a.text) \o <<"</code>">>, 1)

rndr_linebreak(r, ob, a) ==
    NRet(r, ob \o <<Xhtml(r, "<br>\n", "<br/>\n")>>, 1)

TitleAttr(a) ==
    IF a.title = <<>> THEN <<>>
    ELSE <<"\" title=\"">> \o escape_html(a.title)

rndr_link(r, ob, a) ==
    NRet(r, ob \o <<"<a href=\"">> \o a.link \o TitleAttr(a) \o <<"\">">>
              \o a.text \o <<"</a>">>, 1)

rndr_image(r, ob, a) ==
    IF a.link = <<>> THEN NRet(r, ob, 0)
    ELSE NRet(r, ob \o <<"<img src=\"">> \o a.link \o <<"\" alt=\"">>
                   \o escape_html(a.text) \o TitleAttr(a)
                   \o <<Xhtml(r, "\">", "\"/>")>>, 1)

rndr_autolink(r, ob, a) ==
    IF a.text = <<>> THEN NRet(r, ob, 0)
    ELSE NRet(r, ob \o <<"<a href=\"">>
                   \o (IF a.n = 2 THEN <<"mailto:">> ELSE <<>>)
                   \o a.text \o <<"\">">> \o escape_html(a.text)
                   \o <<"</a>">>, 1)

rndr_raw_html(r, ob, a) ==
    IF contains(r.flags, ESCAPE) THEN NRet(r, ob \o escape_html(a.text), 1)
    ELSE IF contains(r.flags, SKIP_HTML) THEN NRet(r, ob, 1)
    ELSE NRet(r, ob \o a.text, 1)

rndr_math(r, ob, a) ==
    NRet(r, ob \o <<IF a.n # 0 THEN "\\[" ELSE "\\(">> \o escape_html(a.text)
              \o <<IF a.n # 0 THEN "\\]" ELSE "\\)">>, 1)

rndr_footnote_ref(r, ob, a) ==
    NRet(r, ob \o <<"<sup id=\"fnref", ToString(a.n), "\"><a href=\"#fn",
                    ToString(a.n), "\" rel=\"footnote\">", ToString(a.n),
                    "</a></sup>">>, 1)

rndr_normal_text(r, ob, a) == NRet(r, ob \o escape_html(a.text), 0)

rndr_entity(r, ob, a) == NRet(r, ob \o a.text, 0)

rndr_noop(r, ob, a) == NRet(r, ob, 0)

(* The table-of-contents callbacks: state in html_toc_data (src/ffi.rs).   *)

RECURSIVE Rep(_, _)
Rep(n, s) == IF n <= 0 THEN <<>> ELSE s \o Rep(n - 1, s)

\* the list moves that bring the open depth from current to level
toc_moves(current, level) ==
    IF level > current
    THEN Rep(level - current, <<"<ul>\n", "<li>\n">>)
    ELSE IF level < current
    THEN <<"</li>\n">> \o Rep(current - level, <<"</ul>\n", "</li>\n">>)
           \o <<"<li>\n">>
    ELSE <<"</li>\n", "<li>\n">>

toc_header(r, ob, a) ==
    IF a.n <= r.toc.nesting_level
    THEN LET offset == IF r.toc.current_level = 0 THEN a.n - 1
                       ELSE r.toc.level_offset
             level == a.n - offset
         IN NRet([r EXCEPT !.toc.level_offset = offset,
                           !.toc.current_level = level,
                           !.toc.header_count = @ + 1],
                 ob \o toc_moves(r.toc.current_level, level)
                    \o <<"<a href=\"#toc_", ToString(r.toc.header_count),
                         "\">">>
                    \o a.text \o <<"</a>\n">>, 0)
    ELSE NRet(r, ob, 0)

toc_link(r, ob, a) == NRet(r, ob \o a.text, 1)

toc_finalize(r, ob, a) ==
    IF a.n # 0 THEN NRet(r, ob, 0)
    ELSE NRet([r EXCEPT !.toc.current_level = IF @ > 0 THEN 0 ELSE @],
              ob \o Rep(r.toc.current_level, <<"</li>\n", "</ul>\n">>), 0)

TagMethods ==
    {"double_emphasis", "emphasis", "underline", "highlight", "quote_span",
     "triple_emphasis", "strikethrough", "superscript"}

OpenTag(m) ==
    CASE m = "double_emphasis" -> "<strong>"
      [] m = "emphasis" -> "<em>"
      [] m = "underline" -> "<u>"
      [] m = "highlight" -> "<mark>"
      [] m = "quote_span" -> "<q>"
      [] m = "triple_emphasis" -> "<strong><em>"
      [] m = "strikethrough" -> "<del>"
      [] m = "superscript" -> "<sup>"

CloseTag(m) ==
    CASE m = "double_emphasis" -> "</strong>"
      [] m = "emphasis" -> "</em>"
      [] m = "underline" -> "</u>"
      [] m = "highlight" -> "</mark>"
      [] m = "quote_span" -> "</q>"
      [] m = "triple_emphasis" -> "</em></strong>"
      [] m = "strikethrough" -> "</del>"
      [] m = "superscript" -> "</sup>"

\* the callbacks hoedown_html_toc_renderer_new registers
TocRegistered ==
    TagMethods \cup {"header", "code_span", "link", "before_render",
                     "after_render"}

\* the entries of the native table that are not NULL
Registered(r) == IF r.kind = "Toc" THEN TocRegistered ELSE Methods

\* the native callback behind an entry of the table
native(r, m, ob, a) ==
    CASE m \in TagMethods -> rndr_tag(r, ob, a, OpenTag(m), CloseTag(m))
      [] m = "code_span" -> rndr_codespan(r, ob, a)
      [] m = "header" ->
            IF r.kind = "Toc" THEN toc_header(r, ob, a)
            ELSE rndr_header(r, ob, a)
      [] m = "link" ->
            IF r.kind = "Toc" THEN toc_link(r, ob, a) ELSE rndr_link(r, ob, a)
      [] m = "before_render" -> rndr_noop(r, ob, a)
      [] m = "after_render" ->
            IF r.kind = "Toc" THEN toc_finalize(r, ob, a)
            ELSE rndr_noop(r, ob, a)
      [] m = "code_block" -> rndr_blockcode(r, ob, a)
      [] m = "quote_block" -> rndr_blockquote(r, ob, a)
      [] m = "horizontal_rule" -> rndr_hrule(r, ob, a)
      [] m = "list" ->
            IF a.n % 2 = 1 THEN rndr_container(r, ob, a, "<ol>\n", "</ol>\n")
            ELSE rndr_container(r, ob, a, "<ul>\n", "</ul>\n")
      [] m = "list_item" -> rndr_inner(r, ob, a, "<li>", "</li>\n")
      [] m = "paragraph" -> rndr_paragraph(r, ob, a)
      [] m = "table" -> rndr_container(r, ob, a, "<table>\n", "</table>\n")
      [] m = "table_header" -> rndr_inner(r, ob, a, "<thead>\n", "</thead>\n")
      [] m = "table_body" -> rndr_inner(r, ob, a, "<tbody>\n", "</tbody>\n")
      [] m = "table_row" -> rndr_inner(r, ob, a, "<tr>\n", "</tr>\n")
      [] m = "table_cell" -> rndr_inner(r, ob, a, "<td>", "</td>\n")
      [] m = "footnotes" ->
            rndr_container(r, ob, a,
                           Xhtml(r, "<div class=\"footnotes\">\n<hr>\n<ol>\n",
                                 "<div class=\"footnotes\">\n<hr/>\n<ol>\n"),
                           "\n</ol>\n</div>\n")
      [] m = "footnote_definition" -> rndr_footnote_def(r, ob, a)
      [] m = "html_block" -> rndr_raw_block(r, ob, a)
      [] m = "autolink" -> rndr_autolink(r, ob, a)
      [] m = "image" -> rndr_image(r, ob, a)
      [] m = "line_break" -> rndr_linebreak(r, ob, a)
      [] m = "footnote_reference" -> rndr_footnote_ref(r, ob, a)
      [] m = "math" -> rndr_math(r, ob, a)
      [] m = "html_span" -> rndr_raw_html(r, ob, a)
      [] m = "entity" -> rndr_entity(r, ob, a)
      [] m = "normal_text" -> rndr_normal_text(r, ob, a)

----------------------------------------------------------------------------
(* impl Render for Html, src/renderer/html.rs: every method looks the      *)
(* native callback up in the table and calls it when there is one.         *)

BoolToInt(b) == IF b THEN 1 ELSE 0

\* block methods: the callback is called, nothing is returned
Html_block(res) == FALSE

\* mutation: a span method that answers true whatever the callback returned
Html_span_always(res) == TRUE

\* span methods: `func(..) != 0`
Html_span(res) == res.ret # 0

\* before_render and after_render: `inline_render as i32`
Html_misc(a) == [a EXCEPT !.n = BoolToInt(a.flag)]

\* mutation: normal_text not overridden, the default of the trait in its place
Html_method_default_text(r, m, ob, a) ==
    LET res == Do("native", <<r, m, ob, IF m \in MiscMethods THEN Html_misc(a) ELSE a>>)
    IN IF m = "normal_text" THEN Do("Render_default", <<r, m, ob, a>>)
       ELSE IF m \notin Registered(r) THEN Ret(r, ob, FALSE)
       ELSE Ret(res.r, res.ob,
                IF m \in SpanMethods THEN Html_span(res) ELSE Html_block(res))

Html_method(r, m, ob, a) ==
    LET res == Do("native", <<r, m, ob, IF m \in MiscMethods THEN Html_misc(a) ELSE a>>)
    IN IF m \notin Registered(r) THEN Ret(r, ob, FALSE)
       ELSE Ret(res.r, res.ob,
                IF m \in SpanMethods THEN Html_span(res) ELSE Html_block(res))

----------------------------------------------------------------------------
(* Closures<R>, src/renderer/closures.rs.  The renderer holds its base and *)
(* one Option of a boxed closure for each method; on is the set of the     *)
(* methods whose Option is Some.  ran records, for the last method called, *)
(* which of the closure and the handler of the base were invoked.          *)

\* Closures::new(renderer): every Option is None
Closures_new(base) == [kind |-> "Closures", base |-> base, on |-> {}, ran |-> <<>>]

\* Closures::on_m(closure)
Closures_on(r, m) == [r EXCEPT !.on = @ \cup {m}]

\* the closure of the documentation of Closures, registered for method m:
\* the content between two marks, and true
Closure(m, ob, a) ==
    [ob |-> Cat(ob, <<"~~">> \o a.text \o <<"~~">>), ret |-> m \in SpanMethods]

\* `inline_render as i32`
Closures_as_i32(a) == [a EXCEPT !.n = BoolToInt(a.flag)]

\* the handler of the base
Closures_base(r, m, ob, a, ran) ==
    LET res == Do("Method", <<r.base, m, ob, a>>)
    IN Ret([r EXCEPT !.base = res.r, !.ran = Append(ran, "base")], res.ob,
           res.ret)

\* code_block .. normal_text: the closure when there is one, else the base
Closures_handler(r, m, ob, a) ==
    IF m \in r.on
    THEN Ret([r EXCEPT !.ran = <<"closure">>], Closure(m, ob, a).ob,
             Closure(m, ob, a).ret)
    ELSE Closures_base(r, m, ob, a, <<>>)

\* mutation: before_render and after_render with an else, as the others
Closures_misc_else(r, m, ob, a) ==
    IF m \in r.on
    THEN Ret([r EXCEPT !.ran = <<"closure">>],
             Closure(m, ob, Closures_as_i32(a)).ob, FALSE)
    ELSE Closures_base(r, m, ob, a, <<>>)

\* before_render and after_render: the closure when there is one, called
\* with `inline_render as i32`, and then the base
Closures_misc(r, m, ob, a) ==
    IF m \in r.on
    THEN Closures_base(r, m, Closure(m, ob, Closures_as_i32(a)).ob, a, <<"closure">>)
    ELSE Closures_base(r, m, ob, a, <<>>)

Closures_method(r, m, ob, a) ==
    IF m \in MiscMethods THEN Closures_misc(r, m, ob, a)
    ELSE Closures_handler(r, m, ob, a)

----------------------------------------------------------------------------
(* Dispatch *)

\* calling method m of the renderer r
Method(r, m, ob, a) ==
    CASE r.kind = "Plain" -> Do("Render_default", <<r, m, ob, a>>)
      [] r.kind = "Trace" -> Trace_method(r, m, ob, a)
      [] r.kind = "BlockRenderer" -> BlockRenderer_method(r, m, ob, a)
      [] r.kind = "DocRenderer" -> DocRenderer_method(r, m, ob, a)
      [] r.kind = "LowLevelRenderer" -> LowLevelRenderer_method(r, m, ob, a)
      [] r.kind = "SpanRenderer" -> SpanRenderer_method(r, m, ob, a)
      [] r.kind = "UnderlineRenderer" -> UnderlineRenderer_method(r, m, ob, a)
      [] r.kind \in NativeKinds -> Html_method(r, m, ob, a)
      [] r.kind = "Wrapper" -> wrap(r, m, ob, a)
      [] r.kind = "Closures" -> Closures_method(r, m, ob, a)

----------------------------------------------------------------------------
(* The trampolines of src/wrappers.rs.  Each takes the renderer out of the *)
(* opaque pointer, views the native buffers, calls the Render method and   *)
(* converts its result.  A trampoline reports the method it called and the *)
(* arguments it passed.                                                    *)

WRet(res, m, a, ret) ==
    [r |-> res.r, ob |-> res.ob, ret |-> ret, m |-> m, a |-> a,
     handled |-> res.ret]

\* blockcode .. blockhtml: nothing is returned
wrappers_block(res) == 0

\* mutation: the trampoline of a span drops the answer of the method
wrappers_span_void(res) == 0

\* autolink .. raw_html: `renderer.m(..) as i32`
wrappers_span(res) == BoolToInt(res.ret)

\* entity
wrappers_entity(res) == 0

\* normal_text
wrappers_normal_text(res) == 0

\* doc_header: `renderer.before_render(&mut out, inline_render != 0)`
wrappers_doc_header(a) == [a EXCEPT !.flag = (a.n # 0)]

\* mutation: `inline_render == 0`
wrappers_doc_footer_negated(a) == [a EXCEPT !.flag = (a.n = 0)]

\* doc_footer: `renderer.after_render(&mut out, inline_render != 0)`
wrappers_doc_footer(a) == [a EXCEPT !.flag = (a.n # 0)]

\* Buffer::from_raw, for the argument x of a: None for a null pointer, a view
\* of the buffer otherwise
Buffer_from_raw(a, x) == IF x \in a.null THEN None ELSE Some(a[x])

\* mutation: a language of no bytes is taken for no language
wrappers_blockcode_empty_none(a) ==
    [a EXCEPT !.link = IF a.link = <<>> THEN None ELSE Some(a.link)]

\* blockcode: `renderer.code_block(&mut out, text.as_ref(), lang.as_ref())`
\* with lang = Buffer::from_raw(lang)
wrappers_blockcode(a) == [a EXCEPT !.link = Buffer_from_raw(a, "link")]

\* mutation: the number of the definition counted from zero
wrappers_footnote_def_from_zero(a) == [a EXCEPT !.n = @ - 1]

\* footnote_def: `renderer.footnote_definition(&mut out, content, num)`
wrappers_footnote_def(a) == a

\* the trampoline to_hoedown stores in the entry of method m: the arguments
\* it passes to the method, and what it returns to the scanner
wrappers(r, m, ob, a) ==
    LET b == CASE m = "before_render" -> wrappers_doc_header(a)
               [] m = "after_render" -> wrappers_doc_footer(a)
               [] m = "footnote_definition" -> wrappers_footnote_def(a)
               [] m = "code_block" -> wrappers_blockcode(a)
               [] OTHER -> a
        res == Do("Method", <<r, m, ob, b>>)
    IN WRet(res, m, b,
            CASE m \in BlockMethods -> wrappers_block(res)
              [] m \in SpanMethods -> wrappers_span(res)
              [] m = "entity" -> wrappers_entity(res)
              [] m = "normal_text" -> wrappers_normal_text(res)
              [] OTHER -> 0)

\* Render::to_hoedown: every entry is Some(trampoline)
Render_to_hoedown(r) == [m \in Methods |-> "wrapper"]

\* mutation: a table that leaves out the callbacks of raw HTML
Html_to_hoedown_no_raw(r) ==
    [m \in Methods |->
        IF m \in Registered(r) \ {"html_span", "html_block"} THEN "native"
        ELSE "none"]

\* Html::to_hoedown: a copy of the native table
Html_to_hoedown(r) ==
    [m \in Methods |-> IF m \in Registered(r) THEN "native" ELSE "none"]

to_hoedown(r) ==
    IF r.kind \in NativeKinds THEN Html_to_hoedown(r) ELSE Render_to_hoedown(r)

----------------------------------------------------------------------------
(* The native document (libhoedown, document.c).  The scanner threads an   *)
(* engine record e: the callback table md, ext_flags, max_nesting, the     *)
(* renderer behind the opaque pointer, and the calls made so far.          *)

Engine(table, ext_flags, max_nesting, r) ==
    [md |-> table, ext_flags |-> ext_flags, max_nesting |-> max_nesting,
     r |-> r, calls |-> <<>>, footnotes_found |-> <<>>, footnotes_used |-> 0]

\* one entry of the call trace; depth counts the work buffers in use in the
\* scanner that recognised the construct; handled is what the method of the
\* renderer answered, ret what the scanner was given, src the bytes of the
\* input the scanner consumed for it
Call(m, a, handled, ret, before, after, depth) ==
    [m |-> m, n |-> a.n, flag |-> a.flag, text |-> a.text, link |-> a.link,
     null |-> a.null, handled |-> handled, ret |-> ret,
     emit |-> Appended(before, after), depth |-> depth, src |-> <<>>]

ERet(e, ob, ret) == [e |-> e, ob |-> ob, ret |-> ret]

\* calling entry m of the table, when it is registered
Invoke(e, m, ob, a, depth) ==
    IF e.md[m] = "none" THEN ERet(e, ob, 0)
    ELSE LET res == IF e.md[m] = "wrapper" THEN Do("wrappers", <<e.r, m, ob, a>>)
                    ELSE LET nat == Do("native", <<e.r, m, ob, a>>)
                         IN [WRet(nat, m, [a EXCEPT !.flag = (a.n # 0)],
                                  nat.ret) EXCEPT !.handled = (nat.ret # 0)]
         IN ERet([e EXCEPT !.r = res.r,
                           !.calls = Append(@, Call(res.m, res.a, res.handled,
                                                    res.ret, ob, res.ob,
                                                    depth))],
                 res.ob, res.ret)

\* C-style access: byte i of data, counted from 0
At(d, i) == IF i >= 0 /\ i < Len(d) THEN d[i + 1] ELSE ""

\* data[from .. to), counted from 0
Cut(d, from, to) == SubSeq(d, from + 1, to)

\* the byte 0x60, which a string of this language cannot hold
Backtick == "BACKTICK"

Alnum ==
    {"a", "b", "c", "d", "e", "f", "g", "i", "l", "m", "n", "o", "p", "r", "s",
     "t", "u", "x", "I", "1", "2", "3"}

IsAlnum(c) == c \in Alnum

HasExt(e, flag) == contains(e.ext_flags, flag)

Has(e, m) == e.md[m] # "none"

\* the active_char table hoedown_document_new fills
active_char(e, c) ==
    \/ /\ c \in {"*", "_"}
       /\ Has(e, "emphasis") \/ Has(e, "double_emphasis")
          \/ Has(e, "triple_emphasis")
    \/ /\ c = "~" /\ HasExt(e, STRIKETHROUGH)
       /\ Has(e, "emphasis") \/ Has(e, "double_emphasis")
          \/ Has(e, "triple_emphasis")
    \/ /\ c = "=" /\ HasExt(e, HIGHLIGHT)
       /\ Has(e, "emphasis") \/ Has(e, "double_emphasis")
          \/ Has(e, "triple_emphasis")
    \/ c = Backtick /\ Has(e, "code_span")
    \/ c = "\n" /\ Has(e, "line_break")
    \/ /\ c = "["
       /\ Has(e, "image") \/ Has(e, "link") \/ Has(e, "footnotes")
          \/ Has(e, "footnote_reference")
    \/ c = "<"
    \/ c = "&"
    \/ c = "^" /\ HasExt(e, SUPERSCRIPT)
    \/ c = "\"" /\ HasExt(e, QUOTE)
    \/ c = "$" /\ HasExt(e, MATH)

RECURSIVE next_active(_, _, _)
next_active(e, data, end) ==
    IF end < Len(data) /\ ~active_char(e, At(data, end))
    THEN next_active(e, data, end + 1)
    ELSE end

\* first index at or after i whose byte is in the set, or the size
RECURSIVE Find(_, _, _)
Find(d, i, set) ==
    IF i < Len(d) /\ At(d, i) \notin set THEN Find(d, i + 1, set) ELSE i

\* first index at or after i whose byte is not in the set, or the size
RECURSIVE Skip(_, _, _)
Skip(d, i, set) ==
    IF i < Len(d) /\ At(d, i) \in set THEN Skip(d, i + 1, set) ELSE i

\* index of the first c in d[from .. to), or 0
FirstIn(d, from, to, c) ==
    LET k == Find(d, from, {c}) IN IF k < to THEN k ELSE 0

\* the closing run of a code span inside find_emph_char: scans from i until
\* nb backticks in a row have been seen
RECURSIVE close_ticks(_, _, _, _)
close_ticks(d, i, bt, nb) ==
    IF i < Len(d) /\ bt < nb
    THEN close_ticks(d, i + 1, IF At(d, i) = Backtick THEN bt + 1 ELSE 0, nb)
    ELSE [i |-> i, bt |-> bt]

\* find_emph_char: the next c, skipping code spans and links
RECURSIVE find_emph_from(_, _, _)
find_emph_from(d, c, start) ==
    LET size == Len(d)
        i == Find(d, start, {c, "[", Backtick})
    IN IF i >= size THEN 0
       ELSE IF At(d, i) = c THEN i
       ELSE IF At(d, i) = Backtick
       THEN LET open == Skip(d, i, {Backtick})
                cl == close_ticks(d, open, 0, open - i)
                tmp == FirstIn(d, open, cl.i, c)
            IN IF open >= size THEN 0
               ELSE IF cl.bt < open - i /\ cl.i >= size THEN tmp
               ELSE find_emph_from(d, c, cl.i)
       ELSE LET close == Find(d, i + 1, {"]"})
                tmp1 == FirstIn(d, i + 1, close, c)
                after == Skip(d, close + 1, {" ", "\n"})
                cc == IF At(d, after) = "[" THEN "]" ELSE ")"
                close2 == Find(d, after + 1, {cc})
                tmp2 == IF tmp1 # 0 THEN tmp1
                        ELSE FirstIn(d, after + 1, close2, c)
            IN IF after >= size THEN tmp1
               ELSE IF At(d, after) \notin {"[", "("}
               THEN IF tmp1 # 0 THEN tmp1 ELSE find_emph_from(d, c, after)
               ELSE IF close2 >= size THEN tmp2
               ELSE find_emph_from(d, c, close2 + 1)

find_emph_char(d, c) == find_emph_from(d, c, 0)

----------------------------------------------------------------------------
(* The inline scanner.  A char handler looks at the bytes from the active   *)
(* char on (d) and describes the span it found: the callback m to call, its *)
(* arguments a, and len, the number of bytes the span takes when the        *)
(* renderer handles it; len = 0 leaves the char to the text.  nb is the     *)
(* number of work buffers in use.                                           *)

RECURSIVE parse_inline(_, _, _, _)

\* the literal run between two active chars
text_run(e, ob, text, nb) ==
    IF Has(e, "normal_text")
    THEN Do("Invoke", <<e, "normal_text", ob, TextArgs(text), nb>>)
    ELSE ERet(e, ob \o text, 0)

\* no span at the active char
NoSpan ==
    [len |-> 0, m |-> "", a |-> NoArgs, parse |-> FALSE, void |-> FALSE,
     cut |-> "", num |-> 0]

\* a span handed to m with the arguments a
Span(m, a, len) == [NoSpan EXCEPT !.len = len, !.m = m, !.a = a]

\* a span whose content is scanned into a work buffer and handed to m
span_content(m, content, len) ==
    [Span(m, TextArgs(content), len) EXCEPT !.parse = TRUE]

RECURSIVE parse_emph1_from(_, _, _, _)
parse_emph1_from(e, d, c, start) ==
    LET len == Do("find_emph_char", <<Tail0(d, start), c>>)
        i == start + len
    IN IF start >= Len(d) \/ len = 0 \/ i >= Len(d) THEN NoSpan
       ELSE IF At(d, i) = c /\ ~IsSpace(At(d, i - 1))
       THEN IF /\ HasExt(e, NO_INTRA_EMPHASIS)
               /\ i + 1 < Len(d) /\ IsAlnum(At(d, i + 1))
            THEN parse_emph1_from(e, d, c, i)
            ELSE span_content(IF HasExt(e, UNDERLINE) /\ c = "_"
                              THEN "underline" ELSE "emphasis",
                              Cut(d, 0, i), i + 1)
       ELSE parse_emph1_from(e, d, c, i)

parse_emph1(e, d, c) ==
    parse_emph1_from(e, d, c,
                     IF Len(d) > 1 /\ At(d, 0) = c /\ At(d, 1) = c
                     THEN 1 ELSE 0)

RECURSIVE parse_emph2_from(_, _, _)
parse_emph2_from(d, c, start) ==
    LET len == Do("find_emph_char", <<Tail0(d, start), c>>)
        i == start + len
    IN IF start >= Len(d) \/ len = 0 THEN NoSpan
       ELSE IF /\ i + 1 < Len(d) /\ At(d, i) = c /\ At(d, i + 1) = c
               /\ i # 0 /\ ~IsSpace(At(d, i - 1))
       THEN span_content(IF c = "~" THEN "strikethrough"
                         ELSE IF c = "=" THEN "highlight"
                         ELSE "double_emphasis",
                         Cut(d, 0, i), i + 2)
       ELSE parse_emph2_from(d, c, i + 1)

parse_emph2(d, c) == parse_emph2_from(d, c, 0)

\* a length measured from an earlier start, brought back to this one
Shorter(s, by) == IF s.len = 0 THEN s ELSE [s EXCEPT !.len = @ - by]

Longer(s, by) == IF s.len = 0 THEN s ELSE [s EXCEPT !.len = @ + by]

\* full is the data from the first marker on: d is full + 3
RECURSIVE parse_emph3_from(_, _, _, _, _)
parse_emph3_from(e, d, c, full, start) ==
    LET len == Do("find_emph_char", <<Tail0(d, start), c>>)
        i == start + len
    IN IF start >= Len(d) \/ len = 0 THEN NoSpan
       ELSE IF At(d, i) # c \/ IsSpace(At(d, i - 1))
       THEN parse_emph3_from(e, d, c, full, i)
       ELSE IF /\ i + 2 < Len(d) /\ At(d, i + 1) = c /\ At(d, i + 2) = c
               /\ Has(e, "triple_emphasis")
       THEN span_content("triple_emphasis", Cut(d, 0, i), i + 3)
       ELSE IF i + 1 < Len(d) /\ At(d, i + 1) = c
       THEN Shorter(parse_emph1(e, Tail0(full, 1), c), 2)
       ELSE Shorter(parse_emph2(Tail0(full, 2), c), 1)

parse_emph3(e, d, c, full) == parse_emph3_from(e, d, c, full, 0)

\* `*`, `_`, and with their extensions `~` and `=`
char_emphasis(e, data, i, consumed) ==
    LET d == Tail0(data, i)
        size == Len(d)
        c == At(d, 0)
    IN IF /\ HasExt(e, NO_INTRA_EMPHASIS) /\ i - consumed > 0
          /\ ~IsSpace(At(data, i - 1)) /\ At(data, i - 1) \notin {">", "("}
       THEN NoSpan
       ELSE IF size > 2 /\ At(d, 1) # c
       THEN IF c \in {"~", "="} \/ IsSpace(At(d, 1)) THEN NoSpan
            ELSE Longer(parse_emph1(e, Tail0(d, 1), c), 1)
       ELSE IF size > 3 /\ At(d, 1) = c /\ At(d, 2) # c
       THEN IF IsSpace(At(d, 2)) THEN NoSpan
            ELSE Longer(parse_emph2(Tail0(d, 2), c), 2)
       ELSE IF size > 4 /\ At(d, 1) = c /\ At(d, 2) = c /\ At(d, 3) # c
       THEN IF c \in {"~", "="} \/ IsSpace(At(d, 3)) THEN NoSpan
            ELSE Longer(parse_emph3(e, Tail0(d, 3), c, d), 3)
       ELSE NoSpan

\* last index above lo whose byte before it is not in the set
RECURSIVE SkipBack(_, _, _, _)
SkipBack(d, i, lo, set) ==
    IF i > lo /\ At(d, i - 1) \in set THEN SkipBack(d, i - 1, lo, set) ELSE i

Min(a, b) == IF a < b THEN a ELSE b

RECURSIVE TrimSpaces(_)
TrimSpaces(ob) ==
    IF ob # <<>> /\ ob[Len(ob)] = " "
    THEN TrimSpaces(SubSeq(ob, 1, Len(ob) - 1))
    ELSE ob

char_codespan(d) ==
    LET n == Skip(d, 0, {Backtick})
        cl == close_ticks(d, n, 0, n)
        end == cl.i
        f_begin == Min(Skip(d, n, {" "}), end)
        f_end == SkipBack(d, end - n, n, {" "})
        text == IF f_begin < f_end THEN Cut(d, f_begin, f_end) ELSE <<>>
    IN IF cl.bt < n /\ end >= Len(d) THEN NoSpan
       ELSE Span("code_span", TextArgs(text), end)

\* a newline after two spaces: the spaces leave the buffer with the break
char_linebreak(data, i, consumed) ==
    IF i - consumed < 2 \/ At(data, i - 1) # " " \/ At(data, i - 2) # " "
    THEN NoSpan
    ELSE [Span("line_break", NoArgs, 1) EXCEPT !.cut = "spaces"]

\* `&`, an optional `#`, alphanumerics, `;`: the callback answers nothing
char_entity(d) ==
    LET start == IF At(d, 1) = "#" THEN 2 ELSE 1
        end == Skip(d, start, {"a", "b", "c", "x", "1", "2", "3"})
    IN IF At(d, end) # ";" THEN NoSpan
       ELSE [Span("entity", TextArgs(Cut(d, 0, end + 1)), end + 1)
                EXCEPT !.void = TRUE]

\* tag_length: the length of the tag at `<` and the kind of autolink in it
\* (0 none, 1 normal, 2 email)
tag_length(d) ==
    LET size == Len(d)
        first == IF At(d, 1) = "/" THEN 2 ELSE 1
        scheme == Skip(d, first, {"a", "b", "c", "x", "1", "2", "3", ".", "+",
                                  "-"})
        mail == Find(d, scheme + 1, {">", " ", "\n"})
        uri == Find(d, scheme + 1, {">", "'", "\"", " ", "\n"})
        close == Find(d, scheme, {">"})
    IN IF size < 3 \/ ~IsAlnum(At(d, first)) THEN [len |-> 0, autolink |-> 0]
       ELSE IF /\ scheme > 1 /\ At(d, scheme) = "@"
               /\ mail > scheme + 1 /\ At(d, mail) = ">"
       THEN [len |-> mail + 1, autolink |-> 2]
       ELSE IF /\ scheme > 2 /\ At(d, scheme) = ":"
               /\ uri > scheme + 1 /\ At(d, uri) = ">"
       THEN [len |-> uri + 1, autolink |-> 1]
       ELSE IF scheme > 2 /\ At(d, scheme) = ":" /\ uri >= size
       THEN [len |-> 0, autolink |-> 0]
       ELSE IF close >= size THEN [len |-> 0, autolink |-> 0]
       ELSE [len |-> close + 1, autolink |-> 0]

\* `<`: an autolink in angle brackets, or a raw HTML tag
char_langle_tag(e, d) ==
    LET t == tag_length(d)
    IN IF t.len <= 2 THEN NoSpan
       ELSE IF Has(e, "autolink") /\ t.autolink # 0
       THEN Span("autolink",
                 Args(Cut(d, 1, t.len - 1), <<>>, <<>>, t.autolink), t.len)
       ELSE IF Has(e, "html_span")
       THEN Span("html_span", TextArgs(Cut(d, 0, t.len)), t.len)
       ELSE NoSpan

\* `^word` and `^(words)`; `^()` is skipped without a callback
char_superscript(e, d) ==
    LET paren == At(d, 1) = "("
        sup_start == IF paren THEN 2 ELSE 1
        sup_len == IF paren
                   THEN Do("find_emph_char", <<Tail0(d, 2), ")">>) + 2
                   ELSE Find(d, 1, {" ", "\n"})
    IN IF ~Has(e, "superscript") \/ Len(d) < 2 THEN NoSpan
       ELSE IF paren /\ sup_len = Len(d) THEN NoSpan
       ELSE IF sup_len = sup_start
       THEN IF paren THEN Span("", NoArgs, 3) ELSE NoSpan
       ELSE span_content("superscript", Cut(d, sup_start, sup_len),
                         IF paren THEN sup_len + 1 ELSE sup_len)

\* the end of the closing run of nq quotes, or 0
RECURSIVE quote_end(_, _, _)
quote_end(d, from, nq) ==
    LET i == from + Do("find_emph_char", <<Tail0(d, from), "\"">>)
        end == Min(Skip(d, i, {"\""}), i + nq)
    IN IF i = from THEN 0
       ELSE IF end - i >= nq THEN end
       ELSE quote_end(d, end, nq)

char_quote(d) ==
    LET nq == Skip(d, 0, {"\""})
        end == quote_end(d, nq, nq)
        f_begin == Min(Skip(d, nq, {" "}), end)
        f_end == SkipBack(d, end - nq, nq, {" "})
    IN IF end = 0 THEN NoSpan
       ELSE IF f_begin < f_end
       THEN span_content("quote_span", Cut(d, f_begin, f_end), end)
       ELSE Span("quote_span", NoArgs, end)

\* index in d of the first delim at or after i, or the size
RECURSIVE find_delim(_, _, _)
find_delim(d, i, delim) ==
    IF i >= Len(d) THEN Len(d)
    ELSE IF i + Len(delim) <= Len(d) /\ Cut(d, i, i + Len(delim)) = delim
    THEN i
    ELSE find_delim(d, i + 1, delim)

is_empty_all(d) == \A k \in 1..Len(d) : IsSpace(d[k])

parse_math(e, data, i, consumed, delim, displaymode) ==
    LET d == Tail0(data, i)
        close == find_delim(d, Len(delim), delim)
        end == close + Len(delim)
        mode == IF Len(delim) = 2 /\ ~HasExt(e, MATH_EXPLICIT)
                THEN BoolToInt(/\ is_empty_all(Cut(data, consumed, i))
                               /\ is_empty_all(Tail0(d, end)))
                ELSE displaymode
    IN IF ~Has(e, "math") \/ close >= Len(d) THEN NoSpan
       ELSE Span("math", Args(Cut(d, Len(delim), close), <<>>, <<>>, mode),
                 end)

char_math(e, data, i, consumed) ==
    IF At(data, i + 1) = "$"
    THEN parse_math(e, data, i, consumed, <<"$", "$">>, 1)
    ELSE IF HasExt(e, MATH_EXPLICIT)
    THEN parse_math(e, data, i, consumed, <<"$">>, 0)
    ELSE NoSpan

\* position in footnotes_found of the definition with this id, or 0
find_footnote_ref(found, id) ==
    IF \E k \in 1..Len(found) : found[k].id = id
    THEN CHOOSE k \in 1..Len(found) :
            /\ found[k].id = id
            /\ \A j \in 1..(k - 1) : found[j].id # id
    ELSE 0

\* `[^id]`: the first reference to a definition numbers it
footnote_link(e, id, len) ==
    LET k == find_footnote_ref(e.footnotes_found, id)
    IN IF k = 0 THEN NoSpan
       ELSE IF e.footnotes_found[k].num # 0 THEN NoSpan
       ELSE [Span("footnote_reference",
                  Args(<<>>, <<>>, <<>>, e.footnotes_used + 1), len)
                EXCEPT !.num = k]

DropBang(ob) ==
    IF ob # <<>> /\ ob[Len(ob)] = "!" THEN SubSeq(ob, 1, Len(ob) - 1) ELSE ob

\* `[text](link)`, `![alt](link)`, `[^id]`
char_link(e, data, i, consumed) ==
    LET d == Tail0(data, i)
        is_img == i - consumed > 0 /\ At(data, i - 1) = "!"
        is_footnote == HasExt(e, FOOTNOTES) /\ At(d, 1) = "^"
        txt_e == 1 + Do("find_emph_char", <<Tail0(d, 1), "]">>)
        open == Skip(d, txt_e + 1, {" ", "\n"})
        link_b == Skip(d, open + 1, {" "})
        close == Find(d, link_b, {")"})
        link == Cut(d, link_b, SkipBack(d, close, link_b, {" "}))
        a == Args(Cut(d, 1, txt_e), link, <<>>, 0)
    IN IF \/ is_img /\ ~Has(e, "image")
          \/ ~is_img /\ ~is_footnote /\ ~Has(e, "link")
          \/ At(d, txt_e) # "]"
       THEN NoSpan
       ELSE IF is_footnote
       THEN footnote_link(e, Cut(d, 2, txt_e), txt_e + 1)
       ELSE IF At(d, open) # "(" \/ close >= Len(d) THEN NoSpan
       ELSE IF is_img
       THEN [Span("image", a, close + 1) EXCEPT !.cut = "bang"]
       ELSE [Span("link", a, close + 1) EXCEPT !.parse = (txt_e > 1)]

\* the handler of the active char at data[i]
char_trigger(e, data, i, consumed) ==
    LET c == At(data, i)
        d == Tail0(data, i)
    IN CASE c \in {"*", "_", "~", "="} -> char_emphasis(e, data, i, consumed)
         [] c = Backtick -> char_codespan(d)
         [] c = "\n" -> char_linebreak(data, i, consumed)
         [] c = "[" -> char_link(e, data, i, consumed)
         [] c = "<" -> char_langle_tag(e, d)
         [] c = "&" -> char_entity(d)
         [] c = "^" -> char_superscript(e, d)
         [] c = "\"" -> char_quote(d)
         [] c = "$" -> char_math(e, data, i, consumed)
         [] OTHER -> NoSpan

\* the buffer a callback is given: a line break is written over the spaces
\* before it, an image over its `!`
Given(s, ob) ==
    CASE s.cut = "spaces" -> TrimSpaces(ob)
      [] s.cut = "bang" -> DropBang(ob)
      [] OTHER -> ob

\* the result of a span callback: when the renderer did not handle the span
\* the buffer keeps its bytes and the char is left to the text
Unhandled(res, ob, given, len) ==
    IF res.ret # 0 THEN ERet(res.e, res.ob, len)
    ELSE ERet(res.e, ob \o Appended(given, res.ob), 0)

\* the callback of the span s: its content is scanned first, a footnote
\* reference is numbered first
span_callback(e, ob, s, nb) ==
    LET used == IF s.num = 0 THEN e
                ELSE [e EXCEPT !.footnotes_found[s.num].num = s.a.n,
                               !.footnotes_used = s.a.n]
        work == IF s.parse THEN Do("parse_inline", <<used, <<>>, s.a.text, nb + 1>>)
                ELSE ERet(used, s.a.text, 0)
        res == Do("Invoke", <<work.e, s.m, Given(s, ob),
                      [s.a EXCEPT !.text = work.ob], nb>>)
    IN IF s.len = 0 \/ s.m = "" THEN ERet(e, ob, s.len)
       ELSE IF ~s.void THEN Unhandled(res, ob, Given(s, ob), s.len)
       ELSE IF Has(e, s.m) THEN ERet(res.e, res.ob, s.len)
       ELSE ERet(e, ob \o s.a.text, s.len)

\* the trace once the scanner consumed src for the callback it called last
Taken(e0, e1, src) ==
    IF Len(e1.calls) > Len(e0.calls) /\ src # <<>>
    THEN [e1 EXCEPT !.calls[Len(e1.calls)].src = src]
    ELSE e1

\* the loop of parse_inline: i is where the pending text starts, end where
\* the scan for the next active char resumes
RECURSIVE inline_from(_, _, _, _, _, _, _)
inline_from(e, ob, data, nb, i, from, consumed) ==
    IF i >= Len(data) THEN ERet(e, ob, 0)
    ELSE LET end == next_active(e, data, from)
             t == Do("text_run", <<e, ob, Cut(data, i, end), nb>>)
             h0 == Do("span_callback", <<t.e, t.ob,
                                 Do("char_trigger", <<t.e, data, end, consumed>>), nb>>)
             h == [h0 EXCEPT !.e = Taken(t.e, h0.e,
                                         Cut(data, end, end + h0.ret))]
         IN IF end >= Len(data) THEN ERet(t.e, t.ob, 0)
            ELSE IF h.ret = 0
            THEN inline_from(h.e, h.ob, data, nb, end, end + 1, consumed)
            ELSE inline_from(h.e, h.ob, data, nb, end + h.ret, end + h.ret,
                             end + h.ret)

\* nothing is scanned once more work buffers are in use than max_nesting
parse_inline(e, ob, data, nb) ==
    IF nb > e.max_nesting THEN ERet(e, ob, 0)
    ELSE inline_from(e, ob, data, nb, 0, 0, 0)

----------------------------------------------------------------------------
(* The block scanner, on a subset of the blocks: ATX headers, block        *)
(* quotes, paragraphs, and footnote definitions.  A block parser returns   *)
(* in ret the number of bytes of data it consumed.                         *)

RECURSIVE parse_block(_, _, _, _)

\* index just after the end of the line that starts at i
LineEnd(d, i) == Min(Find(d, i, {"\n"}) + 1, Len(d))

\* is_empty: the length of the line when it holds only spaces, or 0
is_empty(d) ==
    LET stop == Skip(d, 0, {" "})
    IN IF stop < Len(d) /\ At(d, stop) # "\n" THEN 0 ELSE stop + 1

\* the number of `#` opening the line, at most 6
hashes(d) == Min(Skip(d, 0, {"#"}), 6)

is_atxheader(e, d) ==
    /\ At(d, 0) = "#"
    /\ HasExt(e, SPACE_HEADERS) /\ hashes(d) < Len(d)
         => At(d, hashes(d)) = " "

\* prefix_quote: the length of the `>` prefix of the line, or 0
prefix_quote(d) ==
    LET i == Min(Skip(d, 0, {" "}), 3)
    IN IF At(d, i) # ">" THEN 0
       ELSE IF At(d, i + 1) = " " THEN i + 2
       ELSE i + 1

\* no block: len bytes are skipped
NoBlock(len) == [m |-> "", text |-> <<>>, n |-> 0, len |-> len]

\* a block of len bytes whose text is scanned and handed to m
Block(m, text, n, len) == [m |-> m, text |-> text, n |-> n, len |-> len]

parse_atxheader(d) ==
    LET level == hashes(d)
        i == Skip(d, level, {" "})
        skip == Find(d, i, {"\n"})
        end == SkipBack(d, SkipBack(d, skip, 0, {"#"}), 0, {" "})
    IN IF end > i THEN Block("header", Cut(d, i, end), level, skip)
       ELSE NoBlock(skip)

\* the lines of a block quote with their prefixes removed, and its length
RECURSIVE quote_lines(_, _, _)
quote_lines(d, beg, acc) ==
    LET end == LineEnd(d, beg)
        line == Tail0(Head0(d, end), beg)
        pre == prefix_quote(line)
        rest == Tail0(d, end)
    IN IF beg >= Len(d) THEN [text |-> acc, len |-> beg]
       ELSE IF /\ pre = 0 /\ is_empty(line) # 0
               /\ end >= Len(d) \/ (prefix_quote(rest) = 0 /\ is_empty(rest) = 0)
       THEN [text |-> acc, len |-> end]
       ELSE quote_lines(d, end, acc \o Tail0(line, pre))

parse_blockquote(d) ==
    LET q == quote_lines(d, 0, <<>>)
    IN Block("quote_block", q.text, 0, q.len)

\* is_codefence: the fence of three or more ` or ~ that opens the line after
\* at most three spaces: where it ends (0 when there is none), its width and
\* its byte
is_codefence(line) ==
    LET i == Min(Skip(line, 0, {" "}), 3)
        c == At(line, i)
        end == Skip(line, i, {c})
    IN IF c \in {Backtick, "~"} /\ end - i >= 3
       THEN [w |-> end, width |-> end - i, chr |-> c]
       ELSE [w |-> 0, width |-> 0, chr |-> ""]

\* parse_codefence: the fence of the opening line and the language after it,
\* the first word of the line; a line with another run of the fence byte is
\* a code span
parse_codefence(line) ==
    LET f == is_codefence(line)
        lang_start == Skip(line, f.w, {" "})
        lang_end == Find(line, lang_start, {" "})
    IN IF f.w = 0
          \/ \E i \in (lang_start + 2)..(Len(line) - 1) :
                \A k \in 0..2 : At(line, i - k) = f.chr
       THEN [f EXCEPT !.w = 0] @@ [lang |-> <<>>]
       ELSE f @@ [lang |-> Cut(line, lang_start, lang_end)]

\* the line that closes the fence f, from byte i on: where it starts and
\* where it ends; the end of the data when no line closes it
RECURSIVE fence_close(_, _, _)
fence_close(d, i, f) ==
    LET eol == Find(d, i, {"\n"})
        line == Cut(d, i, eol)
    IN IF i >= Len(d) THEN [start |-> Len(d), end |-> Len(d)]
       ELSE IF is_codefence(line) = f /\ is_empty(Tail0(line, f.w)) # 0
       THEN [start |-> i, end |-> eol]
       ELSE fence_close(d, eol + 1, f)

\* a code block of len bytes: its text is not scanned, lang is its language
Code(text, lang, len) ==
    [m |-> "code_block", text |-> text, n |-> 0, len |-> len, lang |-> lang]

\* parse_fencedcode: the lines between the fences, and the language; a
\* fence with no language gives a language of no bytes
parse_fencedcode(d) ==
    LET eol == Find(d, 0, {"\n"})
        open == parse_codefence(Cut(d, 0, eol))
        close == fence_close(d, eol + 1, [w |-> open.w, width |-> open.width,
                                          chr |-> open.chr])
    IN IF open.w = 0 THEN NoBlock(0)
       ELSE Code(Cut(d, Min(eol + 1, Len(d)), close.start), open.lang,
                 close.end)

\* prefix_code: the four spaces that open a line of an indented code block
prefix_code(line) ==
    IF Len(line) > 3 /\ \A i \in 0..3 : At(line, i) = " " THEN 4 ELSE 0

\* the lines of an indented code block without their prefixes, up to the
\* first line that has text and no prefix
RECURSIVE code_lines(_, _, _)
code_lines(d, beg, work) ==
    LET end == LineEnd(d, beg)
        line == Cut(d, beg, end)
        rest == Tail0(line, prefix_code(line))
    IN IF beg >= Len(d) THEN [text |-> work, len |-> beg]
       ELSE IF prefix_code(line) = 0 /\ is_empty(line) = 0
       THEN [text |-> work, len |-> beg]
       ELSE code_lines(d, end,
                       work \o (IF is_empty(rest) # 0 THEN <<"\n">> ELSE rest))

\* parse_blockcode: the empty lines at the end are dropped and one newline
\* is put; an indented code block has a language of no bytes
parse_blockcode(d) ==
    LET c == code_lines(d, 0, <<>>)
        size == SkipBack(c.text, Len(c.text), 0, {"\n"})
    IN Code(Cut(c.text, 0, size) \o <<"\n">>, <<>>, c.len)

\* the end of the paragraph that starts the data: [i, end]
RECURSIVE paragraph_end(_, _, _)
paragraph_end(e, d, i) ==
    LET end == LineEnd(d, i)
        line == Tail0(d, i)
    IN IF i >= Len(d) THEN [i |-> i, end |-> i]
       ELSE IF is_empty(line) # 0 THEN [i |-> i, end |-> end]
       ELSE IF i > 0 /\ (is_atxheader(e, line) \/ prefix_quote(line) # 0)
       THEN [i |-> i, end |-> i]
       ELSE paragraph_end(e, d, end)

parse_paragraph(e, d) ==
    LET p == paragraph_end(e, d, 0)
        size == SkipBack(d, p.i, 0, {"\n"})
    IN Block("paragraph", Cut(d, 0, size), 0, p.end)

\* the block-level tags of the inputs
BlockTags == {<<"p">>, <<"u", "l">>}

\* the end of the line that closes the tag at or after i, a blank line or
\* the end of the data after it; 0 when there is none
RECURSIVE htmlblock_end(_, _, _)
htmlblock_end(d, tag, i) ==
    LET close == <<"<", "/">> \o tag \o <<">">>
        after == i + Len(close)
        eol == LineEnd(d, after)
    IN IF after > Len(d) THEN 0
       ELSE IF /\ Cut(d, i, after) = close
               /\ is_empty(Cut(d, after, eol)) # 0
               /\ eol >= Len(d) \/ is_empty(Tail0(d, eol)) # 0
       THEN eol
       ELSE htmlblock_end(d, tag, i + 1)

\* parse_htmlblock: a line that opens a block-level tag, up to its close;
\* the bytes are handed over as they are
parse_htmlblock(d) ==
    LET tag == Cut(d, 1, Skip(d, 1, Alnum))
        end == htmlblock_end(d, tag, 1)
    IN IF At(d, 0) = "<" /\ tag \in BlockTags /\ end # 0
       THEN Block("html_block", Cut(d, 0, end), 0, end)
       ELSE NoBlock(0)

\* the block that starts the data
block_kind(e, d) ==
    IF is_atxheader(e, d) THEN parse_atxheader(d)
    ELSE IF At(d, 0) = "<" /\ Has(e, "html_block") /\ parse_htmlblock(d).len # 0
    THEN parse_htmlblock(d)
    ELSE IF is_empty(d) # 0 THEN NoBlock(is_empty(d))
    ELSE IF HasExt(e, FENCED_CODE) /\ parse_fencedcode(d).len # 0
    THEN parse_fencedcode(d)
    ELSE IF prefix_quote(d) # 0 THEN parse_blockquote(d)
    ELSE IF ~HasExt(e, DISABLE_INDENTED_CODE) /\ prefix_code(d) # 0
    THEN parse_blockcode(d)
    ELSE parse_paragraph(e, d)

\* the callback of the block that starts the data: the lines of a block
\* quote are scanned as blocks, the text of the others as spans, into a
\* work buffer
RECURSIVE block_at(_, _, _, _)
block_at(e, ob, d, nb) ==
    LET b == Do("block_kind", <<e, d>>)
        work == IF b.m = "quote_block"
                THEN Do("parse_block", <<e, <<>>, b.text, nb + 1>>)
                ELSE IF b.m \in {"code_block", "html_block"}
                THEN ERet(e, b.text, 0)
                ELSE Do("parse_inline", <<e, <<>>, b.text, nb + 1>>)
        res == Do("Invoke", <<work.e, b.m, ob,
                      Args(work.ob, IF b.m = "code_block" THEN b.lang ELSE <<>>,
                           <<>>, b.n), nb>>)
    IN IF b.m = "" THEN ERet(e, ob, b.len) ELSE ERet(res.e, res.ob, b.len)

RECURSIVE blocks_from(_, _, _, _, _)
blocks_from(e, ob, data, nb, beg) ==
    IF beg >= Len(data) THEN ERet(e, ob, 0)
    ELSE LET b == Do("block_at", <<e, ob, Tail0(data, beg), nb>>)
         IN blocks_from(b.e, b.ob, data, nb, beg + b.ret)

\* nothing is scanned once more work buffers are in use than max_nesting
parse_block(e, ob, data, nb) ==
    IF nb > e.max_nesting THEN ERet(e, ob, 0)
    ELSE blocks_from(e, ob, data, nb, 0)

\* is_footnote: the definition `[^id]: text` on the line, or none
is_footnote(line) ==
    LET i == Min(Skip(line, 0, {" "}), 3)
        close == Find(line, i + 2, {"]", "\n"})
        text_b == Skip(line, close + 2, {" "})
    IN IF /\ At(line, i) = "[" /\ At(line, i + 1) = "^"
          /\ close > i + 2 /\ At(line, close) = "]"
          /\ At(line, close + 1) = ":"
       THEN [found |-> TRUE, id |-> Cut(line, i + 2, close),
             contents |-> Tail0(line, text_b), num |-> 0]
       ELSE [found |-> FALSE]

\* the first pass of hoedown_document_render: footnote definitions leave the
\* text, every other line is copied
RECURSIVE first_pass(_, _, _, _, _)
first_pass(ext_flags, data, beg, text, found) ==
    LET end == LineEnd(data, beg)
        line == Cut(data, beg, end)
        def == is_footnote(line)
    IN IF beg >= Len(data) THEN [text |-> text, footnotes_found |-> found]
       ELSE IF contains(ext_flags, FOOTNOTES) /\ def.found
       THEN first_pass(ext_flags, data, end, text,
                       Append(found, [id |-> def.id,
                                      contents |-> def.contents,
                                      num |-> 0]))
       ELSE first_pass(ext_flags, data, end, text \o line, found)

\* the text the block scanner is given: a final newline is added
with_newline(text) ==
    IF text # <<>> /\ text[Len(text)] # "\n" THEN text \o <<"\n">> ELSE text

\* position in footnotes_found of the definition numbered num
used_at(found, num) == CHOOSE k \in 1..Len(found) : found[k].num = num

\* parse_footnote_def for the definitions numbered num .. footnotes_used
RECURSIVE footnote_defs(_, _, _, _)
footnote_defs(e, work, num, nb) ==
    IF num > e.footnotes_used THEN ERet(e, work, 0)
    ELSE LET def == e.footnotes_found[used_at(e.footnotes_found, num)]
             body == Do("parse_block", <<e, <<>>, with_newline(def.contents), nb + 2>>)
             res == Do("Invoke", <<body.e, "footnote_definition", work,
                           Args(body.ob, <<>>, <<>>, num), nb>>)
         IN footnote_defs(res.e, res.ob, num + 1, nb)

parse_footnote_list(e, ob, nb) ==
    IF e.footnotes_used = 0 THEN ERet(e, ob, 0)
    ELSE LET work == footnote_defs(e, <<>>, 1, nb)
         IN Do("Invoke", <<work.e, "footnotes", ob, TextArgs(work.ob), nb>>)

\* the step of a render call, defined with the operations of a caller
RECURSIVE ThreadStep(_)

Do(f, x) ==
    CASE f = "Render_default" -> Render_default(x[1], x[2], x[3], x[4])
      [] f = "native" -> native(x[1], x[2], x[3], x[4])
      [] f = "Method" -> Method(x[1], x[2], x[3], x[4])
      [] f = "wrappers" -> wrappers(x[1], x[2], x[3], x[4])
      [] f = "Invoke" -> Invoke(x[1], x[2], x[3], x[4], x[5])
      [] f = "text_run" -> text_run(x[1], x[2], x[3], x[4])
      [] f = "char_trigger" -> char_trigger(x[1], x[2], x[3], x[4])
      [] f = "span_callback" -> span_callback(x[1], x[2], x[3], x[4])
      [] f = "parse_inline" -> parse_inline(x[1], x[2], x[3], x[4])
      [] f = "block_kind" -> block_kind(x[1], x[2])
      [] f = "block_at" -> block_at(x[1], x[2], x[3], x[4])
      [] f = "parse_block" -> parse_block(x[1], x[2], x[3], x[4])
      [] f = "parse_footnote_list" -> parse_footnote_list(x[1], x[2], x[3])
      [] f = "find_emph_char" -> find_emph_char(x[1], x[2])
      [] f = "ThreadStep" -> ThreadStep(x[1])

----------------------------------------------------------------------------
(* Markdown (src/markdown.rs) and Document (src/document.rs) *)

DefaultNesting == 16

Markdown_new(body) ==
    [contents |-> body, extensions |-> 0, max_nesting |-> DefaultNesting]

Markdown_extensions(m, extensions) == [m EXCEPT !.extensions = extensions]

Markdown_max_nesting(m, max_nesting) == [m EXCEPT !.max_nesting = max_nesting]

NoDoc == [md |-> "none"]

\* mutation: the document is built with no extension
Document_new_no_extensions(renderer, extensions, max_nesting) ==
    [md |-> renderer, ext_flags |-> 0, max_nesting |-> max_nesting]

\* mutation: the document is built with the default limit of nesting
Document_new_default(renderer, extensions, max_nesting) ==
    [md |-> renderer, ext_flags |-> extensions, max_nesting |-> DefaultNesting]

\* Document::new: hoedown_document_new(renderer, extensions.bits(), max_nesting)
Document_new(renderer, extensions, max_nesting) ==
    [md |-> renderer, ext_flags |-> extensions, max_nesting |-> max_nesting]

\* Document::render: hoedown_document_render starts with its first pass
Document_render(d, input) ==
    LET fp == first_pass(d.ext_flags, input, 0, <<>>, <<>>)
    IN [md |-> d.md, ext_flags |-> d.ext_flags, max_nesting |-> d.max_nesting,
        inline |-> FALSE, text |-> with_newline(fp.text), beg |-> 0,
        footnotes_found |-> fp.footnotes_found, footnotes_used |-> 0]

\* mutation: the inline render calls the render of a whole document
Document_render_inline_blocks(d, input) == Document_render(d, input)

\* Document::render_inline: hoedown_document_render_inline keeps every line
Document_render_inline(d, input) ==
    [md |-> d.md, ext_flags |-> d.ext_flags, max_nesting |-> d.max_nesting,
     inline |-> TRUE, text |-> input, beg |-> 0,
     footnotes_found |-> <<>>, footnotes_used |-> 0]

\* the engine record of the render in progress
Eng ==
    [md |-> doc.md, ext_flags |-> doc.ext_flags,
     max_nesting |-> doc.max_nesting, r |-> rndr, calls |-> calls,
     footnotes_found |-> doc.footnotes_found,
     footnotes_used |-> doc.footnotes_used]

\* the state after a step of the scanner that returned res
Scanned(res, beg, next) ==
    /\ rndr' = res.e.r
    /\ calls' = res.e.calls
    /\ output' = res.ob
    /\ doc' = [doc EXCEPT !.footnotes_found = res.e.footnotes_found,
                          !.footnotes_used = res.e.footnotes_used,
                          !.beg = beg]
    /\ pc' = next
    /\ UNCHANGED <<md, script, hist>>
    /\ UNCHANGED buffer_vars

\* what the history keeps of an operation
Done(op, before, prior, after) ==
    [op |-> op, input |-> md.contents, extensions |-> md.extensions,
     max_nesting |-> md.max_nesting, before |-> before, prior |-> prior,
     kept |-> IsPrefix(prior, after), appended |-> Appended(prior, after),
     calls |-> calls]

----------------------------------------------------------------------------
(* The operations of a caller *)

Next_op(op) == pc = "idle" /\ script # <<>> /\ Head(script).op = op

\* the start of a render: to_hoedown, Document::new, and the entry into the
\* native render function with the caller's buffer
Start(d, ob) ==
    /\ doc' = d @@ [before |-> rndr, prior |-> ob]
    /\ output' = ob
    /\ pc' = "doc_header"
    /\ calls' = <<>>
    /\ UNCHANGED <<md, rndr, script, hist>>
    /\ UNCHANGED buffer_vars

\* Render::render_to
render_to ==
    /\ Next_op("render_to")
    /\ Start(Document_render(
                 Document_new(to_hoedown(rndr), md.extensions, md.max_nesting),
                 md.contents), output)

\* Render::render: render_to into Buffer::new(64)
render ==
    /\ Next_op("render")
    /\ Start(Document_render(
                 Document_new(to_hoedown(rndr), md.extensions, md.max_nesting),
                 md.contents), <<>>)

\* Render::render_inline_to
render_inline_to ==
    /\ Next_op("render_inline_to")
    /\ Start(Document_render_inline(
                 Document_new(to_hoedown(rndr), md.extensions, md.max_nesting),
                 md.contents), output)

\* Render::render_inline: render_inline_to into Buffer::new(64)
render_inline ==
    /\ Next_op("render_inline")
    /\ Start(Document_render_inline(
                 Document_new(to_hoedown(rndr), md.extensions, md.max_nesting),
                 md.contents), <<>>)

\* the native render calls doc_header with 0, the inline one with 1
doc_header ==
    /\ pc = "doc_header"
    /\ Scanned(Do("Invoke", <<Eng, "before_render", output,
                      Args(<<>>, <<>>, <<>>, BoolToInt(doc.inline)), 0>>),
               0,
               IF doc.inline THEN "inline"
               ELSE IF doc.text = <<>> THEN "footnotes" ELSE "blocks")

\* the scanner moves past the block it scanned
Block_scanned(res) ==
    Scanned(res, doc.beg + res.ret,
            IF doc.beg + res.ret >= Len(doc.text) THEN "footnotes"
            ELSE "blocks")

\* one top-level block of the document
block ==
    /\ pc = "blocks"
    /\ Block_scanned(Do("block_at",
                        <<Eng, output, Tail0(doc.text, doc.beg), 0>>))

\* the footnotes that were referenced, when the extension is on
footnotes ==
    /\ pc = "footnotes"
    /\ Scanned(IF contains(doc.ext_flags, FOOTNOTES)
               THEN Do("parse_footnote_list", <<Eng, output, 0>>)
               ELSE ERet(Eng, output, 0),
               doc.beg, "doc_footer")

\* the inline render scans the whole input as one span
inline ==
    /\ pc = "inline"
    /\ Scanned(Do("parse_inline", <<Eng, output, doc.text, 0>>), Len(doc.text),
               "doc_footer")

doc_footer ==
    /\ pc = "doc_footer"
    /\ Scanned(Do("Invoke", <<Eng, "after_render", output,
                      Args(<<>>, <<>>, <<>>, BoolToInt(doc.inline)), 0>>),
               doc.beg, "free")

\* Drop for Document: hoedown_document_free; the render returns
Document_drop ==
    /\ pc = "free"
    /\ hist' = Append(hist, Done(Head(script).op, doc.before, doc.prior,
                                 output))
    /\ doc' = NoDoc
    /\ pc' = "idle"
    /\ script' = Tail(script)
    /\ UNCHANGED <<md, rndr, output, calls>>
    /\ UNCHANGED buffer_vars

\* the caller has the result of the method it called
Called(op, res) ==
    /\ rndr' = res.r
    /\ output' = res.ob
    /\ calls' = <<Call(op.m, op.a, res.ret, BoolToInt(res.ret), output,
                       res.ob, 0)>>
    /\ hist' = Append(hist, [Done("call", rndr, output, res.ob)
                                EXCEPT !.calls = calls'])
    /\ script' = Tail(script)
    /\ UNCHANGED <<md, doc, pc>>
    /\ UNCHANGED buffer_vars

\* Markdown::extensions, with the union of the flags the caller names
extensions ==
    /\ Next_op("extensions")
    /\ \E S \in SUBSET DOMAIN Extension :
          /\ md' = Markdown_extensions(md, Extension_of(S).bits)
          /\ hist' = Append(hist, [op |-> "extensions", flags |-> S])
    /\ script' = Tail(script)
    /\ UNCHANGED <<rndr, output, doc, pc, calls>>
    /\ UNCHANGED buffer_vars

\* Closures::on_m: the caller registers a closure for the method m
on_closure ==
    /\ Next_op("on")
    /\ rndr.kind = "Closures"
    /\ rndr' = Closures_on(rndr, Head(script).m)
    /\ hist' = Append(hist, [op |-> "on", m |-> Head(script).m])
    /\ script' = Tail(script)
    /\ UNCHANGED <<md, output, doc, pc, calls>>
    /\ UNCHANGED buffer_vars

\* a method of the renderer called directly on the caller's buffer
call ==
    /\ Next_op("call")
    /\ Called(Head(script),
              Do("Method", <<rndr, Head(script).m, output, Head(script).a>>))

Next ==
    \/ render_to
    \/ render
    \/ render_inline_to
    \/ render_inline
    \/ doc_header
    \/ block
    \/ footnotes
    \/ inline
    \/ doc_footer
    \/ Document_drop
    \/ call

----------------------------------------------------------------------------
(* Two threads, each in a render call.  Here rndr and output hold the      *)
(* renderer instances and the output buffers of the process, md, doc, pc   *)
(* and calls one entry for each thread, and script the call of each        *)
(* thread: the operation, the renderer instance r and the buffer ob.       *)

Threads == {1, 2}

\* the thread of a render call and what it works on
Thread(t) ==
    [md |-> md[t], r |-> rndr[script[t].r],
     ob |-> IF script[t].ob = 0 THEN <<>> ELSE output[script[t].ob],
     doc |-> doc[t], pc |-> pc[t], calls |-> calls[t]]

\* the thread after a step of the scanner that returned res
ThreadScanned(th, res, beg, next) ==
    [th EXCEPT !.r = res.e.r, !.calls = res.e.calls, !.ob = res.ob,
               !.doc = [@ EXCEPT !.footnotes_found = res.e.footnotes_found,
                                 !.footnotes_used = res.e.footnotes_used,
                                 !.beg = beg],
               !.pc = next]

ThreadEng(th) ==
    [md |-> th.doc.md, ext_flags |-> th.doc.ext_flags,
     max_nesting |-> th.doc.max_nesting, r |-> th.r, calls |-> th.calls,
     footnotes_found |-> th.doc.footnotes_found,
     footnotes_used |-> th.doc.footnotes_used]

\* the next step of a render call: render_to, the steps of the native
\* render, Drop for Document
ThreadStep(th) ==
    CASE th.pc = "idle" ->
            [th EXCEPT !.doc = Document_render(
                                  Document_new(to_hoedown(th.r), th.md.extensions,
                                               th.md.max_nesting),
                                  th.md.contents),
                       !.pc = "doc_header", !.calls = <<>>]
      [] th.pc = "doc_header" ->
            ThreadScanned(th, Do("Invoke", <<ThreadEng(th), "before_render",
                                            th.ob, NoArgs, 0>>),
                          0, IF th.doc.text = <<>> THEN "footnotes" ELSE "blocks")
      [] th.pc = "blocks" ->
            LET res == Do("block_at", <<ThreadEng(th), th.ob,
                                        Tail0(th.doc.text, th.doc.beg), 0>>)
            IN ThreadScanned(th, res, th.doc.beg + res.ret,
                             IF th.doc.beg + res.ret >= Len(th.doc.text)
                             THEN "footnotes" ELSE "blocks")
      [] th.pc = "footnotes" ->
            ThreadScanned(th, IF contains(th.doc.ext_flags, FOOTNOTES)
                              THEN Do("parse_footnote_list",
                                      <<ThreadEng(th), th.ob, 0>>)
                              ELSE ERet(ThreadEng(th), th.ob, 0),
                          th.doc.beg, "doc_footer")
      [] th.pc = "doc_footer" ->
            ThreadScanned(th, Do("Invoke", <<ThreadEng(th), "after_render",
                                            th.ob, NoArgs, 0>>),
                          th.doc.beg, "free")
      [] th.pc = "free" -> [th EXCEPT !.doc = NoDoc, !.pc = "done"]

\* Render::render, mutation: every call writes to the first buffer
Render_render_shared(outs) == 1

\* Render::render: `let mut output = Buffer::new(64)`, a buffer of the call
Render_render(outs) == Len(outs) + 1

\* thread t enters Render::render, which makes the output buffer
par_render(t) ==
    /\ pc[t] = "idle" /\ script[t].op = "render" /\ script[t].ob = 0
    /\ output' = IF Render_render(output) > Len(output)
                 THEN Append(output, <<>>) ELSE output
    /\ script' = [script EXCEPT ![t].ob = Render_render(output)]
    /\ UNCHANGED <<md, rndr, doc, pc, calls, hist>>
    /\ UNCHANGED buffer_vars

\* thread t takes the next step of render_to, which it called or render did
par_step(t) ==
    /\ pc[t] # "done" /\ script[t].ob # 0
    /\ LET th == Do("ThreadStep", <<Thread(t)>>)
       IN /\ rndr' = [rndr EXCEPT ![script[t].r] = th.r]
          /\ output' = [output EXCEPT ![script[t].ob] = th.ob]
          /\ doc' = [doc EXCEPT ![t] = th.doc]
          /\ pc' = [pc EXCEPT ![t] = th.pc]
          /\ calls' = [calls EXCEPT ![t] = th.calls]
    /\ UNCHANGED <<md, script, hist>>
    /\ UNCHANGED buffer_vars

NextPar ==
    \/ par_render(1)
    \/ par_render(2)
    \/ par_step(1)
    \/ par_step(2)

----------------------------------------------------------------------------
(* Buffer (src/buffer.rs) over the native hoedown_buffer.  Here a byte is  *)
(* a number 0..255 and a native buffer is a record on the heap.            *)

\* hoedown_buffer_new(unit): nothing allocated for the data yet
hoedown_buffer_new(unit) ==
    [data |-> <<>>, size |-> 0, asize |-> 0, unit |-> unit, frees |-> 0]

\* the capacity after growing by whole units up to neosz
RECURSIVE grown(_, _, _)
grown(asize, unit, neosz) ==
    IF asize >= neosz THEN asize ELSE grown(asize + unit, unit, neosz)

\* hoedown_buffer_grow(buf, neosz), for a buffer with a unit
hoedown_buffer_grow(buf, neosz) ==
    IF buf.asize >= neosz THEN buf
    ELSE [buf EXCEPT !.asize = grown(buf.asize + buf.unit, buf.unit, neosz)]

\* hoedown_buffer_put(buf, data, size), for a buffer with a unit
hoedown_buffer_put(buf, data) ==
    LET b == IF buf.size + Len(data) > buf.asize
             THEN hoedown_buffer_grow(buf, buf.size + Len(data))
             ELSE buf
    IN [b EXCEPT !.data = @ \o data, !.size = @ + Len(data)]

\* how hoedown_buffer_put ends on a buffer with unit 0: its assertion stops
\* the process; in a build without assertions the growth never ends, or
\* there is nothing to grow
put_ends(buf, data) ==
    IF buf.unit # 0 THEN {"ok"}
    ELSE IF data = <<>> THEN {"aborted", "ok"}
    ELSE {"aborted", "hung"}

\* hoedown_buffer_free(buf)
hoedown_buffer_free(buf) == [buf EXCEPT !.frees = @ + 1]

\* the result of an operation on a Buffer
Io(op, status, ok, text, dest, src) ==
    [op |-> op, status |-> status, ok |-> ok, text |-> text, dest |-> dest,
     src |-> src]

NoIo == Io("", "ok", TRUE, <<>>, <<>>, 0)

\* struct Buffer { buffer, is_owned }
Buffer(ptr, is_owned) == [buffer |-> ptr, is_owned |-> is_owned, dropped |-> FALSE]

\* AsRef<[u8]> for Buffer: the slice data[0..size]
as_ref(buf) == SubSeq(buf.data, 1, buf.size)

\* Buffer::len
Buffer_len(buf) == buf.size

\* Write::write for Buffer, mutation: the size is moved without hoedown_buffer_put
Buffer_write_unchecked(buf, data) ==
    [buf EXCEPT !.data = @ \o data, !.size = @ + Len(data)]

\* Write::write for Buffer
Buffer_write(buf, data) == hoedown_buffer_put(buf, data)

\* Buffer::pipe
Buffer_pipe(buf, input) == hoedown_buffer_put(buf, as_ref(input))

\* whether Drop for Buffer calls hoedown_buffer_free
Buffer_drop_frees(b, buf) == b.is_owned /\ buf.unit # 0

\* DerefMut / AsMut<[u8]> for Buffer: a store into the slice
deref_mut_store(buf, k, byte) == [buf EXCEPT !.data[k] = byte]

\* Read::read for Buffer: a read of a fresh slice of the whole contents
Buffer_read(buf, n) ==
    SubSeq(as_ref(buf), 1, IF n < buf.size THEN n ELSE buf.size)

(* UTF-8, as core::str::from_utf8 validates it *)

IsCont(b) == b >= 128 /\ b <= 191

\* the width the first byte announces, 0 when it cannot start a character
utf8_char_width(b) ==
    IF b < 128 THEN 1
    ELSE IF b >= 194 /\ b <= 223 THEN 2
    ELSE IF b >= 224 /\ b <= 239 THEN 3
    ELSE IF b >= 240 /\ b <= 244 THEN 4
    ELSE 0

\* the second byte the first one admits
second_ok(first, next) ==
    CASE first = 224 -> next >= 160 /\ next <= 191
      [] first = 237 -> next >= 128 /\ next <= 159
      [] first = 240 -> next >= 144 /\ next <= 191
      [] first = 244 -> next >= 128 /\ next <= 143
      [] OTHER -> IsCont(next)

RECURSIVE run_utf8_validation(_)
run_utf8_validation(v) ==
    IF v = <<>> THEN TRUE
    ELSE LET w == utf8_char_width(v[1])
         IN /\ w # 0
            /\ Len(v) >= w
            /\ w >= 2 => second_ok(v[1], v[2])
            /\ \A k \in 3..w : IsCont(v[k])
            /\ run_utf8_validation(SubSeq(v, w + 1, Len(v)))

\* Buffer::to_str, mutation: the bytes are taken for text without validation
Buffer_to_str_unchecked(buf) ==
    Io("to_str", "ok", TRUE, as_ref(buf), <<>>, 0)

\* Buffer::to_str: str::from_utf8(self.as_ref())
Buffer_to_str(buf) ==
    IF run_utf8_validation(as_ref(buf))
    THEN Io("to_str", "ok", TRUE, as_ref(buf), <<>>, 0)
    ELSE Io("to_str", "ok", FALSE, <<>>, <<>>, 0)

(* smartypants (src/renderer/html.rs) over hoedown_html_smartypants.  The  *)
(* bytes: 39 is ', 34 is ", 45 is -, 46 is ., 32 a space, 10 a newline.    *)

Mdash == <<38, 109, 100, 97, 115, 104, 59>>

Ndash == <<38, 110, 100, 97, 115, 104, 59>>

Hellip == <<38, 104, 101, 108, 108, 105, 112, 59>>

Lsquo == <<38, 108, 115, 113, 117, 111, 59>>

Rsquo == <<38, 114, 115, 113, 117, 111, 59>>

Ldquo == <<38, 108, 100, 113, 117, 111, 59>>

Rdquo == <<38, 114, 100, 113, 117, 111, 59>>

\* the byte before a quote lets it open: none, a space or punctuation
word_boundary(c) == c \in {0, 32, 10, 34, 39, 45, 46}

\* the pass over text from its i-th byte; squote and dquote tell whether a
\* quote of the kind is open
RECURSIVE smartypants_from(_, _, _, _)
smartypants_from(text, i, squote, dquote) ==
    LET c == text[i]
        prev == IF i > 1 THEN text[i - 1] ELSE 0
        run(b, n) == /\ i + n - 1 <= Len(text)
                     /\ \A k \in i..(i + n - 1) : text[k] = b
        open(is_open) == word_boundary(prev) /\ ~is_open
    IN IF i > Len(text) THEN <<>>
       ELSE IF run(45, 3)
       THEN Mdash \o smartypants_from(text, i + 3, squote, dquote)
       ELSE IF run(45, 2)
       THEN Ndash \o smartypants_from(text, i + 2, squote, dquote)
       ELSE IF run(46, 3)
       THEN Hellip \o smartypants_from(text, i + 3, squote, dquote)
       ELSE IF c = 39
       THEN (IF open(squote) THEN Lsquo ELSE Rsquo)
               \o smartypants_from(text, i + 1, open(squote), dquote)
       ELSE IF c = 34
       THEN (IF open(dquote) THEN Ldquo ELSE Rdquo)
               \o smartypants_from(text, i + 1, squote, open(dquote))
       ELSE <<c>> \o smartypants_from(text, i + 1, squote, dquote)

\* hoedown_html_smartypants(ob, data, size)
hoedown_html_smartypants(ob, data) ==
    hoedown_buffer_put(ob, smartypants_from(data, 1, FALSE, FALSE))

\* html::smartypants, mutation: the two buffers in each other's place
smartypants_swapped(content, ob) ==
    hoedown_html_smartypants(content, as_ref(ob))

\* html::smartypants(content, output): the output buffer ob after the call
smartypants(content, ob) ==
    hoedown_html_smartypants(ob, as_ref(content))

(* The operations of a caller on Buffer values.  A caller uses a Buffer   *)
(* it has not dropped, and a view only while the buffer under it is not   *)
(* freed.                                                                 *)

\* the addresses of the native buffers a caller allocates
Addrs == {1, 2}

\* the most bytes a caller puts into one buffer
MaxData == 3

\* the most bytes a read to the end collects before the caller is out of memory
MaxRead == 3

Units == {0, 2}

WriteData == {<<>>, <<97>>, <<97, 97>>}

Usable(i) ==
    /\ i \in 1..Len(bufs)
    /\ ~bufs[i].dropped
    /\ heap[bufs[i].buffer].frees = 0

Ready == io.status = "ok"

CanAlloc == Len(heap) + 1 \in Addrs

\* a put into the buffer at ptr of heap h that ends as st
Put(op, h, ptr, buf, st) ==
    /\ heap' = IF st = "ok" THEN [h EXCEPT ![ptr] = buf] ELSE h
    /\ io' = Io(op, st, st = "ok", <<>>, <<>>, 0)

\* Buffer::new(size)
op_new ==
    /\ Ready /\ CanAlloc
    /\ \E size \in Units :
          /\ heap' = Append(heap, hoedown_buffer_new(size))
          /\ bufs' = Append(bufs, Buffer(Len(heap) + 1, TRUE))
          /\ io' = NoIo
    /\ UNCHANGED render_vars

\* Buffer::from_raw / Buffer::from_raw_mut of a pointer that is not null
op_from_raw ==
    /\ Ready /\ Len(bufs) \in Addrs
    /\ \E ptr \in 1..Len(heap) :
          /\ heap[ptr].frees = 0
          /\ bufs' = Append(bufs, Buffer(ptr, FALSE))
          /\ io' = NoIo
    /\ UNCHANGED heap
    /\ UNCHANGED render_vars

\* From<&[u8]> / From<&str> for Buffer: Buffer::new(64), then write
op_from ==
    /\ Ready /\ CanAlloc
    /\ \E data \in WriteData :
          /\ heap' = Append(heap, Buffer_write(hoedown_buffer_new(64), data))
          /\ bufs' = Append(bufs, Buffer(Len(heap) + 1, TRUE))
          /\ io' = NoIo
    /\ UNCHANGED render_vars

\* Write::write
op_write ==
    /\ Ready
    /\ \E i \in 1..Len(bufs), data \in WriteData :
          /\ Usable(i)
          /\ heap[bufs[i].buffer].size + Len(data) <= MaxData
          /\ \E st \in put_ends(heap[bufs[i].buffer], data) :
                Put("write", heap, bufs[i].buffer,
                    Buffer_write(heap[bufs[i].buffer], data), st)
    /\ UNCHANGED bufs
    /\ UNCHANGED render_vars

\* Buffer::pipe, into a Buffer over another native buffer
op_pipe ==
    /\ Ready
    /\ \E i, j \in 1..Len(bufs) :
          /\ Usable(i) /\ Usable(j)
          /\ bufs[i].buffer # bufs[j].buffer
          /\ heap[bufs[i].buffer].size + heap[bufs[j].buffer].size <= MaxData
          /\ \E st \in put_ends(heap[bufs[i].buffer],
                                as_ref(heap[bufs[j].buffer])) :
                Put("pipe", heap, bufs[i].buffer,
                    Buffer_pipe(heap[bufs[i].buffer], heap[bufs[j].buffer]),
                    st)
    /\ UNCHANGED bufs
    /\ UNCHANGED render_vars

\* Clone for Buffer: Buffer::new(unit), then pipe
op_clone ==
    /\ Ready /\ CanAlloc
    /\ \E i \in 1..Len(bufs) :
          /\ Usable(i)
          /\ LET src == heap[bufs[i].buffer]
                 new == hoedown_buffer_new(src.unit)
             IN \E st \in put_ends(new, as_ref(src)) :
                   /\ Put("clone", Append(heap, new), Len(heap) + 1,
                          Buffer_pipe(new, src), st)
                   /\ bufs' = IF st = "ok"
                              THEN Append(bufs, Buffer(Len(heap) + 1, TRUE))
                              ELSE bufs
    /\ UNCHANGED render_vars

\* Drop for Buffer
op_drop ==
    /\ Ready
    /\ \E i \in 1..Len(bufs) :
          /\ Usable(i)
          /\ heap' = IF Buffer_drop_frees(bufs[i], heap[bufs[i].buffer])
                     THEN [heap EXCEPT ![bufs[i].buffer] =
                                          hoedown_buffer_free(@)]
                     ELSE heap
          /\ bufs' = [bufs EXCEPT ![i].dropped = TRUE]
          /\ io' = NoIo
    /\ UNCHANGED render_vars

\* Buffer::to_str
op_to_str ==
    /\ Ready
    /\ \E i \in 1..Len(bufs) :
          /\ Usable(i)
          /\ io' = [Buffer_to_str(heap[bufs[i].buffer]) EXCEPT !.src = i]
    /\ UNCHANGED <<heap, bufs>>
    /\ UNCHANGED render_vars

\* a store through the mutable slice of DerefMut / AsMut<[u8]>
op_deref_mut ==
    /\ Ready
    /\ \E i \in 1..Len(bufs) :
          /\ Usable(i)
          /\ \E k \in {1, heap[bufs[i].buffer].size} \cap 1..heap[bufs[i].buffer].size, byte \in {98} :
                heap' = [heap EXCEPT ![bufs[i].buffer] =
                                        deref_mut_store(@, k, byte)]
          /\ io' = NoIo
    /\ UNCHANGED bufs
    /\ UNCHANGED render_vars

\* Buffer::read_from(reader) with a Buffer as the reader: read_to_end starts
op_read_from ==
    /\ Ready /\ CanAlloc
    /\ \E i \in 1..Len(bufs) :
          /\ Usable(i)
          /\ io' = Io("read_from", "reading", TRUE, <<>>, <<>>, i)
    /\ UNCHANGED <<heap, bufs>>
    /\ UNCHANGED render_vars

\* one turn of read_to_end: Read::read into the spare room of the Vec; at 0
\* the Vec is complete and Buffer::from makes the result
op_read ==
    /\ io.status = "reading"
    /\ Len(io.dest) < MaxRead
    /\ \E n \in 1..MaxData :
          LET got == Buffer_read(heap[bufs[io.src].buffer], n)
          IN IF got = <<>>
             THEN /\ heap' = Append(heap, Buffer_write(hoedown_buffer_new(64),
                                                       io.dest))
                  /\ bufs' = Append(bufs, Buffer(Len(heap) + 1, TRUE))
                  /\ io' = [io EXCEPT !.status = "ok", !.text = io.dest]
             ELSE /\ io' = [io EXCEPT !.dest = @ \o got]
                  /\ UNCHANGED <<heap, bufs>>
    /\ UNCHANGED render_vars

\* html::smartypants(&content, &mut output), on two Buffers
op_smartypants ==
    /\ Ready /\ io.op = ""
    /\ \E i, j \in 1..Len(bufs) :
          /\ Usable(i) /\ Usable(j)
          /\ bufs[i].buffer # bufs[j].buffer
          /\ heap' = [heap EXCEPT ![bufs[j].buffer] =
                                     smartypants(heap[bufs[i].buffer], @)]
          /\ io' = Io("smartypants", "ok", TRUE, as_ref(heap[bufs[i].buffer]),
                      as_ref(heap[bufs[j].buffer]), i)
    /\ UNCHANGED bufs
    /\ UNCHANGED render_vars

NextBuffer ==
    \/ op_new
    \/ op_from_raw
    \/ op_from
    \/ op_write
    \/ op_pipe
    \/ op_clone
    \/ op_drop
    \/ op_to_str
    \/ op_deref_mut
    \/ op_read_from
    \/ op_read

----------------------------------------------------------------------------
(* Initial states: the caller has built a Markdown value with the builder  *)
(* methods, a renderer and an output buffer, and is about to run a script. *)

\* the inputs made of at most n of the fragments
RECURSIVE Bodies(_, _)
Bodies(frags, n) ==
    IF n = 0 THEN {<<>>}
    ELSE Bodies(frags, n - 1)
           \cup {b \o f : b \in Bodies(frags, n - 1), f \in frags}

Op(op) == [op |-> op, m |-> "", a |-> NoArgs]

CallOp(m, a) == [op |-> "call", m |-> m, a |-> a]

InitOf(bodies, exts, nestings, renderers, outputs, scripts) ==
    /\ md \in {Markdown_max_nesting(Markdown_extensions(Markdown_new(b), x), n) :
                  b \in bodies, x \in exts, n \in nestings}
    /\ rndr \in renderers
    /\ output \in outputs
    /\ script \in scripts
    /\ doc = NoDoc
    /\ pc = "idle"
    /\ calls = <<>>
    /\ hist = <<>>
    /\ heap = <<>>
    /\ bufs = <<>>
    /\ io = NoIo

----------------------------------------------------------------------------
(* Universes of inputs.  A byte string is a sequence of one-byte strings.  *)

\* the most bytes of plain text put before the constructs of an input
MaxText == 1

\* the most block quote markers put before the first line of an input
MaxQuote == 2

\* the most headers of an input rendered as a table of contents
MaxHeaders == 4

\* one fragment for each span callback the scanner can reach, an entity, text
SpanFrags ==
    {<<"a">>, <<" ">>, <<"&", "#", "1", ";">>,
     <<"*", "a", "*">>, <<"_", "a", "_">>, <<"*", "*", "a", "*", "*">>,
     <<"*", "*", "*", "a", "*", "*", "*">>, <<Backtick, "a", Backtick>>,
     <<"~", "~", "a", "~", "~">>, <<"=", "=", "a", "=", "=">>,
     <<"\"", "a", "\"">>, <<"^", "a">>, <<"$", "$", "a", "$", "$">>,
     <<"[", "a", "]", "(", "b", ")">>, <<"!", "[", "a", "]", "(", "b", ")">>,
     <<" ", " ", "\n", "b">>, <<"<", "b", ">">>,
     <<"<", "a", "a", ":", "b", ">">>}

\* what follows the first fragment
SpanTails ==
    {<<>>, <<"a">>, <<"*", "a", "*">>, <<"&", "#", "1", ";">>,
     <<" ", " ", "\n", "b">>, <<"*">>}

SpanExts == STRIKETHROUGH + UNDERLINE + HIGHLIGHT + QUOTE + SUPERSCRIPT + MATH

SpanBodies ==
    {Rep(i, <<"b">>) \o f \o g : i \in 0..MaxText, f \in SpanFrags,
                                 g \in SpanTails}

\* lines of a document
BlockFrags ==
    {<<"a", "\n">>, <<"\n">>, <<"#", " ", "a", "\n">>,
     <<">", " ", "a", "\n">>, <<"*", "a", "*", " ", "b", "\n">>,
     <<"a", "[", "^", "1", "]", "\n">>,
     <<"\n", "[", "^", "1", "]", ":", " ", "b", "\n">>,
     <<"&", "#", "1", ";">>}

BlockBodies ==
    {Rep(i, <<">", " ">>) \o f \o g : i \in 0..MaxQuote, f \in BlockFrags,
                                      g \in BlockFrags \cup {<<>>}}

\* text with inline markup on one line, not starting with a space
BareFrags ==
    {<<"a">>, <<"a", " ", "b">>, <<"_", "a", "_">>, <<"*", "*", "a", "*", "*">>,
     <<Backtick, "a", Backtick>>, <<"[", "a", "]", "(", "b", ")">>,
     <<"&", "#", "1", ";">>, <<"a", " ">>}

BareBodies == {f \o g : f \in BareFrags, g \in BareFrags \cup {<<>>}}

\* documents made of headers only
Levels == {1, 2, 3}

HeaderLine(level) == Rep(level, <<"#">>) \o <<" ", "a", "\n">>

RECURSIVE HeaderBodies(_)
HeaderBodies(n) ==
    IF n = 0 THEN {<<>>}
    ELSE HeaderBodies(n - 1)
           \cup {b \o HeaderLine(l) : b \in HeaderBodies(n - 1), l \in Levels}

\* the arguments of a direct call
CallArgs == {Args(<<"a">>, <<"b">>, <<>>, 1), NoArgs}

TraitRenderers == {Plain, DocRenderer, LowLevelRenderer, SpanRenderer}

RenderOps == {"render", "render_to", "render_inline", "render_inline_to"}

InlineOps == {"render_inline", "render_inline_to"}

\* every entry point once, on short inputs
InitEntries(renderers) ==
    \/ InitOf({<<"a", " ", "*", "b", "*", "\n">>, <<"#", " ", "a", "\n">>},
              {0}, {DefaultNesting}, renderers, {<<>>, <<"x">>},
              {<<Op(o)>> : o \in RenderOps})
    \/ InitOf({<<>>}, {0}, {DefaultNesting}, renderers \cup {Trace},
              {<<>>, <<"x">>},
              {<<CallOp(m, a)>> : m \in Methods, a \in CallArgs})

\* spans, scanned by render_inline
InitSpans ==
    InitOf(SpanBodies, {0, SpanExts}, {DefaultNesting},
           {Plain, LowLevelRenderer, SpanRenderer}, {<<>>},
           {<<Op("render_inline")>>})

\* blocks, nested and not, under small and large limits of nesting
InitBlocks ==
    InitOf(BlockBodies, {FOOTNOTES}, {0, 1, 2, DefaultNesting},
           {Plain, DocRenderer, Html_new(0, 0)}, {<<>>},
           {<<Op("render")>>, <<Op("render_inline")>>})

\* the same text rendered as a document and inline by the HTML renderer
InitBare ==
    InitOf(BareBodies, {0}, {DefaultNesting},
           {Html_new(0, 0), Html_new(USE_XHTML, 0)}, {<<>>},
           {<<Op("render"), Op("render_inline")>>})

\* renders into a buffer the caller already wrote to, one after the other
InitBuffers ==
    InitOf({<<"a">>, <<"a", "\n", "\n", "b">>, <<"*", "a", "*">>,
            <<" ", " ", "\n", "b">>, <<"#", " ", "a">>},
           {0}, {DefaultNesting}, TraitRenderers \cup {Html_new(0, 0)},
           {<<>>, <<"x">>, <<"x", " ">>},
           {<<Op(o)>> : o \in {"render_to", "render_inline_to"}}
             \cup {<<Op(o), Op(o)>> : o \in {"render_to", "render_inline_to"}})

Init == InitEntries(TraitRenderers) \/ InitSpans \/ InitBlocks \/ InitBare
          \/ InitBuffers

Spec == Init /\ [][Next]_vars

\* a render, once started, runs to its end
InitNesting == InitEntries({Plain, Html_new(0, 0)}) \/ InitBlocks

\* an operation is being run, or one is left to run: the states where a
\* step of Next can be taken, since every action is a position of pc and the
\* values its code computes
Running == pc # "idle" \/ script # <<>>

\* a call that was made is run to its end: weak fairness of Next, with
\* ENABLED <<Next>>_vars written as Running
Fairness == []<>(~Running) \/ []<><<Next>>_vars

SpecNesting == InitNesting /\ [][Next]_vars /\ Fairness

\* tables of contents
InitToc ==
    \/ InitOf(HeaderBodies(MaxHeaders), {0}, {DefaultNesting},
              {Html_toc(n) : n \in {2, 3}}, {<<>>}, {<<Op("render")>>})
    \/ InitEntries({Html_toc(2)})

SpecToc == InitToc /\ [][Next]_vars

\* nothing is being rendered
NoRender ==
    /\ md = Markdown_new(<<>>)
    /\ rndr = Plain
    /\ output = <<>>
    /\ script = <<>>
    /\ doc = NoDoc
    /\ pc = "idle"
    /\ calls = <<>>
    /\ hist = <<>>

\* a caller with no Buffer yet
InitBuffer ==
    /\ NoRender
    /\ heap = <<>>
    /\ bufs = <<>>
    /\ io = NoIo

SpecBuffer == InitBuffer /\ [][NextBuffer]_vars

\* a read to the end that was started is carried on
SpecRead == InitBuffer /\ [][NextBuffer]_vars /\ WF_vars(op_read)

(* Buffers of arbitrary bytes.  The bytes are the ones at which UTF-8     *)
(* changes its mind: the ends of the ranges of first and second bytes.    *)

MaxStr == 4

StrBytes == {65, 128, 143, 144, 159, 160, 191, 193, 194, 224, 237, 240, 244}

RECURSIVE SeqsUpTo(_, _)
SeqsUpTo(S, n) ==
    IF n = 0 THEN {<<>>}
    ELSE LET T == SeqsUpTo(S, n - 1)
         IN T \cup {Append(t, b) : t \in {u \in T : Len(u) = n - 1}, b \in S}

\* the caller holds Buffer::from(bytes)
InitStr ==
    /\ NoRender
    /\ \E bytes \in SeqsUpTo(StrBytes, MaxStr) :
          heap = <<Buffer_write(hoedown_buffer_new(64), bytes)>>
    /\ bufs = <<Buffer(1, TRUE)>>
    /\ io = NoIo

NextStr == op_to_str

SpecStr == InitStr /\ [][NextStr]_vars

(* Text with quotes, dashes and dots, and an output buffer that may hold  *)
(* bytes already.                                                         *)

\* the most bytes of the content
MaxSmart == 4

SmartBytes == {39, 34, 45, 46, 97, 32}

\* the caller holds Buffer::from(text) and Buffer::new(64), written or not
InitSmart ==
    /\ NoRender
    /\ \E text \in SeqsUpTo(SmartBytes, MaxSmart), held \in {<<>>, <<97>>} :
          heap = <<Buffer_write(hoedown_buffer_new(64), text),
                   Buffer_write(hoedown_buffer_new(64), held)>>
    /\ bufs = <<Buffer(1, TRUE), Buffer(2, TRUE)>>
    /\ io = NoIo

NextSmart == op_smartypants

SpecSmart == InitSmart /\ [][NextSmart]_vars

(* Documents with footnotes: a paragraph of references and the definitions *)
(* of some of the labels, before the paragraph or after it.                *)

\* the most footnote definitions of an input
MaxNotes == 2

NoteIds == 1..MaxNotes

\* `a[^k]`
NoteRef(k) == <<"a", "[", "^", ToString(k), "]">>

\* `[^k]: k`, a definition whose text is its label
NoteDef(k) == <<"[", "^", ToString(k), "]", ":", " ", ToString(k), "\n">>

RECURSIVE NoteRefs(_)
NoteRefs(ids) ==
    IF ids = <<>> THEN <<>> ELSE NoteRef(Head(ids)) \o NoteRefs(Tail(ids))

RECURSIVE NoteDefs(_)
NoteDefs(ids) ==
    IF ids = <<>> THEN <<>> ELSE NoteDef(Head(ids)) \o NoteDefs(Tail(ids))

\* the labels referenced, in order, some of them more than once
RefOrders == SeqsUpTo(NoteIds, MaxNotes + 1) \ {<<>>}

\* the labels defined, in order, each once
DefOrders ==
    {d \in SeqsUpTo(NoteIds, MaxNotes) :
        \A i, j \in 1..Len(d) : i # j => d[i] # d[j]}

NoteBodies ==
    {NoteRefs(r) \o <<"\n", "\n">> \o NoteDefs(d) :
        r \in RefOrders, d \in DefOrders}
      \cup {NoteDefs(d) \o NoteRefs(r) \o <<"\n">> :
               r \in RefOrders, d \in DefOrders}

InitNotes ==
    \/ InitOf(NoteBodies, {FOOTNOTES}, {DefaultNesting},
              {DocRenderer, Html_new(0, 0)}, {<<>>}, {<<Op("render")>>})
    \/ InitEntries({Plain})

SpecNotes == InitNotes /\ [][Next]_vars

(* Documents with a code block: fenced, with and without a language,      *)
(* closed and not, or indented; alone, after a paragraph, before a         *)
(* paragraph or before an indented code block.                             *)

\* the most bytes of the language of a fence
MaxLang == 2

Fences == {Rep(n, <<c>>) : n \in {3, 4}, c \in {Backtick, "~"}}

CodeLangs == {Rep(i, <<"b">>) : i \in 0..MaxLang}

CodeTexts == {<<>>, <<"a", "\n">>, <<"a", "<", "\n">>}

Indent == <<" ", " ", " ", " ">>

FencedFrags ==
    {f \o sp \o lang \o <<"\n">> \o text
        \o (IF closed THEN f \o <<"\n">> ELSE <<>>) :
        f \in Fences, sp \in {<<>>, <<" ">>}, lang \in CodeLangs,
        text \in CodeTexts, closed \in BOOLEAN}

IndentedFrags ==
    {Indent \o <<"a", "\n">>,
     Indent \o <<"a", "\n", "\n">> \o Indent \o <<"b", "\n">>}

CodeBodies ==
    {p \o c \o q :
        p \in {<<>>, <<"a", "\n", "\n">>},
        c \in FencedFrags \cup IndentedFrags,
        q \in {<<>>, <<"\n", "a", "\n">>,
               <<"\n">> \o Indent \o <<"a", "\n">>}}

InitCode ==
    \/ InitOf(CodeBodies,
              {0, FENCED_CODE, FENCED_CODE + DISABLE_INDENTED_CODE},
              {DefaultNesting}, {BlockRenderer, Html_new(0, 0)}, {<<>>},
              {<<Op("render")>>})
    \/ InitEntries({BlockRenderer})

SpecCode == InitCode /\ [][Next]_vars

(* Text with one span between two runs of the same emphasis marker. *)

\* the most markers of a run
MaxRun == 4

EmphContents == {<<"a">>, <<"a", " ", "b">>}

EmphBodies ==
    {pre \o Rep(n, <<c>>) \o t \o Rep(n, <<c>>) \o post :
        pre \in {<<>>, <<"b", " ">>}, n \in 1..MaxRun, c \in {"*", "_"},
        t \in EmphContents, post \in {<<>>, <<" ", "b">>, <<"?">>}}

InitEmph ==
    \/ InitOf(EmphBodies, {0, UNDERLINE}, {DefaultNesting},
              {Plain, SpanRenderer, UnderlineRenderer, Html_new(0, 0)},
              {<<>>}, {<<Op("render")>>, <<Op("render_inline")>>})
    \/ InitEntries({SpanRenderer})

SpecEmph == InitEmph /\ [][Next]_vars

(* Text with the characters HTML gives a meaning to, as the text of a      *)
(* paragraph, of a code span and of a code block, passed to the HTML       *)
(* renderer by the scanner and by a caller of its methods.                 *)

\* the most bytes of a text
MaxEsc == 2

Unsafe == {"<", ">", "&", "\"", "'"}

EscTexts == SeqsUpTo(Unsafe \cup {"a"}, MaxEsc) \ {<<>>}

EscBodies ==
    UNION {{<<"a", " ">> \o t,
            <<Backtick>> \o t \o <<Backtick>>,
            <<Backtick, Backtick, Backtick, "\n">> \o t
               \o <<"\n", Backtick, Backtick, Backtick, "\n">>,
            Indent \o t \o <<"\n">>} : t \in EscTexts}

\* src/tests/extensions.rs, test_strikethrough and test_highlight
Strikethrough ==
    <<"I", "'", "m", " ", "~", "~", "r", "u", "n", "n", "i", "n", "g", "~", "~",
      " ", "o", "u", "t", " ", "o", "f", " ", "i", "d", "e", "a", "s", ".">>

Highlight ==
    <<"I", "'", "m", " ", "=", "=", "s", "p", "e", "c", "i", "a", "l", "=", "=",
      ".">>

TextMethods == {"normal_text", "code_span", "code_block"}

InitEscape ==
    \/ InitOf(EscBodies, {0, FENCED_CODE}, {DefaultNesting}, {Html_new(0, 0)},
              {<<>>}, {<<Op("render")>>})
    \/ InitOf({Strikethrough, Highlight}, {0, STRIKETHROUGH, HIGHLIGHT},
              {DefaultNesting}, {Html_new(0, 0), SpanRenderer}, {<<>>},
              {<<Op("render")>>})
    \/ InitOf({<<>>}, {0}, {DefaultNesting}, {Html_new(0, 0)}, {<<>>, <<"x">>},
              {<<CallOp(m, Args(t, <<>>, <<>>, 0))>> :
                  m \in TextMethods, t \in EscTexts})
    \/ InitEntries({Html_new(0, 0)})

SpecEscape == InitEscape /\ [][Next]_vars

(* Raw HTML in the text of a paragraph and as a block of its own, rendered *)
(* by the HTML renderer under each of its flags.                           *)

\* the most bytes between the tags
MaxRaw == 2

RawTexts == SeqsUpTo({"a", "&"}, MaxRaw) \ {<<>>}

OpenB == <<"<", "b", ">">>

CloseB == <<"<", "/", "b", ">">>

OpenP == <<"<", "p", ">">>

CloseP == <<"<", "/", "p", ">">>

\* a tag pair inside the text of a paragraph
RawSpan(pre, t, post) ==
    (IF pre THEN <<"c", " ">> ELSE <<>>) \o OpenB \o t \o CloseB
        \o (IF post THEN <<" ", "c">> ELSE <<>>)

\* a block-level tag pair on a line of its own, between paragraphs
RawBlock(pre, t, post) ==
    (IF pre THEN <<"c", "\n", "\n">> ELSE <<>>) \o OpenP \o t \o CloseP
        \o <<"\n">> \o (IF post THEN <<"\n", "c", "\n">> ELSE <<>>)

RawBodies ==
    {RawSpan(pre, t, post) : pre \in BOOLEAN, t \in RawTexts, post \in BOOLEAN}
       \cup {RawBlock(pre, t, post) :
                pre \in BOOLEAN, t \in RawTexts, post \in BOOLEAN}

RawFlags == {0, SKIP_HTML, ESCAPE, USE_XHTML, SKIP_HTML + USE_XHTML}

InitRaw ==
    \/ InitOf(RawBodies, {0}, {DefaultNesting},
              {Html_new(f, 0) : f \in RawFlags}, {<<>>}, {<<Op("render")>>})
    \/ InitOf({<<>>}, {0}, {DefaultNesting},
              {Html_new(f, 0) : f \in RawFlags}, {<<>>, <<"x">>},
              {<<CallOp(m, TextArgs(OpenB))>> : m \in {"html_span", "html_block"}})
    \/ InitEntries({Html_new(0, 0)})

SpecRaw == InitRaw /\ [][Next]_vars

(* Text that uses the syntax of one extension or of none, rendered under   *)
(* no extension, one, all, and all but one.                                *)

\* the most words before the fragment
MaxWords == 1

\* the extensions whose syntax the scanner reads
CheckedExts ==
    {FENCED_CODE, FOOTNOTES, STRIKETHROUGH, UNDERLINE, HIGHLIGHT, QUOTE,
     SUPERSCRIPT, MATH, NO_INTRA_EMPHASIS, SPACE_HEADERS, MATH_EXPLICIT,
     DISABLE_INDENTED_CODE}

RECURSIVE Bits(_)
Bits(S) == IF S = {} THEN 0 ELSE LET x == CHOOSE y \in S : TRUE
                                 IN x + Bits(S \ {x})

ExtSets ==
    {0, Bits(CheckedExts)} \cup CheckedExts
       \cup {Bits(CheckedExts \ {x}) : x \in CheckedExts}

ExtFrags ==
    {<<"a">>, <<"*", "a", "*">>, <<"_", "a", "_">>, <<"a", "_", "b", "_", "c">>,
     <<"a", "*", "b", "*", "c">>, <<"*", "a", "*", "b">>,
     <<"~", "~", "a", "~", "~">>, <<"=", "=", "a", "=", "=">>,
     <<"^", "a">>, <<"\"", "a", "\"">>, <<"$", "a", "$">>,
     <<"$", "$", "a", "$", "$">>, <<"#", "a">>, <<"#", " ", "a">>,
     <<" ", " ", " ", " ", "a">>,
     <<Backtick, Backtick, Backtick, "\n", "a", "\n", Backtick, Backtick,
       Backtick>>,
     <<"~", "~", "~", "\n", "a", "\n", "~", "~", "~">>,
     <<"a", "[", "^", "1", "]", "\n", "\n", "[", "^", "1", "]", ":", " ", "b">>,
     <<">", " ", "a">>, <<Backtick, "a", Backtick>>, <<"a", " ", "&", " ", "b">>}

ExtTails == {<<>>, <<"\n">>, <<" ", "c">>, <<"\n", "\n", "a", "\n">>}

ExtBodies ==
    {Rep(i, <<"b", " ">>) \o f \o g :
        i \in 0..MaxWords, f \in ExtFrags, g \in ExtTails}

InitExt ==
    \/ InitOf(ExtBodies, ExtSets, {DefaultNesting}, {Html_new(0, 0)}, {<<>>},
              {<<Op("render")>>})
    \/ InitEntries({Html_new(0, 0)})

SpecExt == InitExt /\ [][Next]_vars

(* A caller that sets the extensions of a document, any flags together. *)

InitFlags ==
    InitOf({<<"a">>}, {0}, {DefaultNesting}, {Plain}, {<<>>},
           {<<Op("extensions")>>})

NextFlags == extensions

SpecFlags == InitFlags /\ [][NextFlags]_vars

(* Two threads that render documents of a few blocks, with renderers and   *)
(* buffers of their own or, by unsafe code, the same ones.                 *)

\* the most blocks of a document
MaxBlocks == 2

ParBodies ==
    UNION {{Rep(n, <<"#", " ", "a", "\n", "\n">>),
            Rep(n, <<"a", "\n", "\n">>)} : n \in 1..MaxBlocks}

ParRenderers == {Html_new(0, 0), Html_toc(6)}

ParCalls ==
    {<<[op |-> o1, r |-> 1, ob |-> b1], [op |-> o2, r |-> r2, ob |-> b2]>> :
        o1 \in {"render", "render_to"}, o2 \in {"render", "render_to"},
        r2 \in {1, 2}, b1 \in {0, 1}, b2 \in {0, 1, 2}}

InitPar ==
    /\ md \in {<<Markdown_new(b1), Markdown_new(b2)>> :
                  b1 \in ParBodies, b2 \in ParBodies}
    /\ script \in {c \in ParCalls :
                      /\ \A t \in Threads : (c[t].op = "render") = (c[t].ob = 0)
                      /\ c[2].ob = 2 => c[1].ob = 1}
    /\ rndr \in {<<r1, r2>> : r1 \in ParRenderers, r2 \in ParRenderers}
    /\ script[2].r = 1 => rndr[2] = rndr[1]
    /\ output = [k \in 1..Cardinality({script[1].ob, script[2].ob} \ {0})
                    |-> <<>>]
    /\ doc = <<NoDoc, NoDoc>>
    /\ pc = <<"idle", "idle">>
    /\ calls = << <<>>, <<>> >>
    /\ hist = <<>>
    /\ heap = <<>>
    /\ bufs = <<>>
    /\ io = NoIo

SpecPar == InitPar /\ [][NextPar]_vars

----------------------------------------------------------------------------
(* What the properties below read off a state.  calls is the trace of the  *)
(* render in progress, or of the last operation.                           *)

\* the operation the caller is in
CurOp == IF script # <<>> THEN Head(script).op ELSE ""

InRender == pc # "idle"

Returned == pc = "free"

InlineRender == InRender /\ CurOp \in InlineOps

FullRender == InRender /\ CurOp \in RenderOps \ InlineOps

\* the bytes the render in progress added to the buffer it was given
RenderAppended == Appended(doc.prior, output)

\* the block methods a renderer overrides
Overridden(kind) ==
    CASE kind = "Plain" -> {}
      [] kind \in {"DocRenderer", "LowLevelRenderer", "SpanRenderer",
                   "UnderlineRenderer"} ->
            {"paragraph"}
      [] kind = "BlockRenderer" ->
            BlockMethods \ {"footnotes", "footnote_definition"}
      [] OTHER -> BlockMethods

\* the renderers with the default entity and normal_text
DefaultLowLevel ==
    {"Plain", "Trace", "BlockRenderer", "DocRenderer", "SpanRenderer",
     "UnderlineRenderer"}

\* the renderers with no span method that answers true
NoSpanHandled == {"Plain", "BlockRenderer", "DocRenderer", "LowLevelRenderer"}

\* the bytes of the input behind a call: the text of a run, the bytes the
\* scanner consumed for an entity or a span
Source(c) == IF c.m = "normal_text" THEN c.text ELSE c.src

\* the literal bytes a call delivered
Literal(c) == IF c.m \in LowLevelMethods THEN c.text ELSE <<>>

RECURSIVE SourceOf(_, _)
SourceOf(tr, depth) ==
    IF tr = <<>> THEN <<>>
    ELSE (IF Head(tr).depth = depth THEN Source(Head(tr)) ELSE <<>>)
           \o SourceOf(Tail(tr), depth)

RECURSIVE LiteralOf(_, _)
LiteralOf(tr, depth) ==
    IF tr = <<>> THEN <<>>
    ELSE (IF Head(tr).depth = depth THEN Literal(Head(tr)) ELSE <<>>)
           \o LiteralOf(Tail(tr), depth)

\* the calls of method m, in order
RECURSIVE CallsOf(_, _)
CallsOf(tr, m) ==
    IF tr = <<>> THEN <<>>
    ELSE (IF Head(tr).m = m THEN <<Head(tr)>> ELSE <<>>) \o CallsOf(Tail(tr), m)

\* C1: for every span callback the scanner calls during a render, the
\* scanner takes the bytes of the span out of the text exactly when the
\* method of the renderer answered true; at the end of an inline render every
\* byte of the input lies in a text run, an entity or a handled span, in
\* order; and a renderer whose span methods are all the defaults gets the
\* whole input written to the output verbatim.
SpanFallback ==
    /\ InRender =>
         \A k \in 1..Len(calls) :
            calls[k].m \in SpanMethods =>
               (calls[k].handled <=> calls[k].src # <<>>)
    /\ Returned /\ InlineRender => SourceOf(calls, 0) = md.contents
    /\ Returned /\ InlineRender /\ rndr.kind = "Plain" =>
         RenderAppended = md.contents

\* an inline render where one span was handled and another was not
SpanFallbackWitness ==
    /\ Returned /\ InlineRender /\ rndr.kind = "SpanRenderer"
    /\ \E k \in 1..Len(calls) :
          calls[k].m = "emphasis" /\ calls[k].handled /\ calls[k].depth = 0
    /\ \E k \in 1..Len(calls) :
          calls[k].m = "math" /\ ~calls[k].handled /\ calls[k].depth = 0

\* C2: in every render before_render is the first callback and is called
\* once, after_render is the last callback and is called once, and both get
\* the flag that is true exactly for render_inline and render_inline_to.
DocHeaderFooter ==
    /\ pc = "doc_header" => calls = <<>>
    /\ InRender /\ pc # "doc_header" =>
         /\ calls # <<>>
         /\ calls[1].m = "before_render"
         /\ calls[1].flag = (CurOp \in InlineOps)
         /\ \A k \in 2..Len(calls) : calls[k].m # "before_render"
         /\ ~Returned => \A k \in 1..Len(calls) : calls[k].m # "after_render"
    /\ Returned =>
         /\ Len(calls) >= 2
         /\ calls[Len(calls)].m = "after_render"
         /\ calls[Len(calls)].flag = (CurOp \in InlineOps)
         /\ \A k \in 1..(Len(calls) - 1) : calls[k].m # "after_render"

\* an inline render that made other callbacks between the two
DocHeaderFooterWitness ==
    /\ Returned /\ InlineRender /\ Len(calls) > 3
    /\ calls[1].flag /\ calls[Len(calls)].flag
    /\ rndr.kind = "DocRenderer"

LowLevel ==
    /\ InRender =>
         \A k \in 1..Len(calls) :
            /\ calls[k].m = "entity" =>
                  /\ calls[k].text = calls[k].src
                  /\ Head(calls[k].text) = "&"
                  /\ calls[k].text[Len(calls[k].text)] = ";"
            /\ calls[k].m = "normal_text" =>
                  /\ \A j \in 2..Len(calls[k].text) :
                        ~active_char(Eng, calls[k].text[j])
                  /\ /\ k > 1 /\ calls[k - 1].m = "normal_text"
                     /\ calls[k - 1].depth = calls[k].depth
                     /\ calls[k].text # <<>>
                     => active_char(Eng, Head(calls[k].text))
    /\ \A k \in 1..Len(calls) :
          calls[k].m \in LowLevelMethods /\ rndr.kind \in DefaultLowLevel =>
             calls[k].emit = calls[k].text
    /\ Returned /\ InlineRender /\ rndr.kind \in NoSpanHandled =>
         LiteralOf(calls, 0) = md.contents

\* an inline render by the defaults with an entity and a run of two bytes
LowLevelWitness ==
    /\ Returned /\ InlineRender /\ rndr.kind = "Plain"
    /\ \E k \in 1..Len(calls) : calls[k].m = "entity"
    /\ \E k \in 1..Len(calls) :
          calls[k].m = "normal_text" /\ Len(calls[k].text) >= 2

\* text on one line that starts with neither a space nor a block marker
BareText(b) ==
    /\ b # <<>>
    /\ \A k \in 1..Len(b) : b[k] # "\n"
    /\ b[1] \notin {" ", "#", ">"}

\* C5: an inline render calls no block method; and for bare text the HTML
\* renderer's render is <p>, the output of its render_inline, </p> and a
\* newline, while the output of render_inline has no <p> around it.
InlineOnly ==
    /\ InlineRender => \A k \in 1..Len(calls) : calls[k].m \notin BlockMethods
    /\ \A i, j \in 1..Len(hist) :
          /\ hist[i].op = "render" /\ hist[j].op = "render_inline"
          /\ hist[i].before.kind = "Html" /\ hist[j].before.kind = "Html"
          /\ hist[i].input = hist[j].input /\ BareText(hist[i].input)
          => /\ hist[i].appended
                  = <<"<p>">> \o hist[j].appended \o <<"</p>\n">>
             /\ hist[j].appended # <<>>
             /\ Head(hist[j].appended) # "<p>"
             /\ hist[j].appended[Len(hist[j].appended)] # "</p>\n"

\* bare text with emphasis rendered both ways by the HTML renderer
InlineOnlyWitness ==
    /\ Len(hist) = 2
    /\ hist[1].op = "render" /\ hist[2].op = "render_inline"
    /\ hist[1].before.kind = "Html" /\ BareText(hist[1].input)
    /\ \E k \in 1..Len(hist[2].appended) : hist[2].appended[k] = "<em>"

----------------------------------------------------------------------------
(* Tables of contents *)

\* a full render by a table-of-contents renderer
TocRender == FullRender /\ doc.before.kind = "Toc"

\* the header calls that make an entry
Entries(tr) ==
    SelectSeq(CallsOf(tr, "header"),
              LAMBDA c : c.n <= doc.before.toc.nesting_level)

Count(s, t) == Cardinality({k \in 1..Len(s) : s[k] = t})

\* the entry links to #toc_k
LinksTo(emit, k) ==
    /\ Count(emit, "<a href=\"#toc_") = 1
    /\ \E j \in 1..(Len(emit) - 2) :
          /\ emit[j] = "<a href=\"#toc_"
          /\ emit[j + 1] = ToString(k)
          /\ emit[j + 2] = "\">"

\* the list tags of s are closed in the order they were opened, given the
\* tags open before s
RECURSIVE Nested(_, _)
Nested(s, open) ==
    IF s = <<>> THEN open = <<>>
    ELSE CASE Head(s) = "<ul>\n" -> Nested(Tail(s), <<"ul">> \o open)
           [] Head(s) = "<li>\n" -> Nested(Tail(s), <<"li">> \o open)
           [] Head(s) = "</ul>\n" ->
                 open # <<>> /\ Head(open) = "ul" /\ Nested(Tail(s), Tail(open))
           [] Head(s) = "</li>\n" ->
                 open # <<>> /\ Head(open) = "li" /\ Nested(Tail(s), Tail(open))
           [] OTHER -> Nested(Tail(s), open)

\* the levels of the headers of the input, when it is a sequence of headers
RECURSIVE LevelsOf(_)
LevelsOf(b) ==
    IF b = <<>> THEN <<>>
    ELSE LET h == hashes(b) IN <<h>> \o LevelsOf(Tail0(b, h + 3))

Entry(k) == <<"<a href=\"#toc_", ToString(k), "\">", "a", "</a>\n">>

TocCounter ==
    TocRender /\ hist = <<>> =>
       /\ \A k \in 1..Len(Entries(calls)) :
             LinksTo(Entries(calls)[k].emit, k - 1)
       /\ \A k \in 1..Len(calls) :
             /\ calls[k].m = "header"
             /\ calls[k].n > doc.before.toc.nesting_level
             => calls[k].emit = <<>>
       /\ rndr.toc.header_count = Len(Entries(calls))

\* a header deeper than the nesting level between two entries
TocCounterWitness ==
    /\ TocRender /\ hist = <<>> /\ Returned
    /\ doc.before.toc.nesting_level = 2
    /\ LevelsOf(md.contents) = <<1, 3, 2>>
    /\ Len(Entries(calls)) = 2
    /\ LinksTo(Entries(calls)[2].emit, 1)

----------------------------------------------------------------------------
(* The nesting limit *)

----------------------------------------------------------------------------
(* The caller's buffer *)

----------------------------------------------------------------------------
(* Buffers *)

\* C11: in every native buffer the size is at most the capacity and is the
\* number of bytes held, and a capacity that has grown is a whole number of
\* growth units.
BufferCapacity ==
    \A ptr \in 1..Len(heap) :
       /\ heap[ptr].size <= heap[ptr].asize
       /\ heap[ptr].size = Len(heap[ptr].data)
       /\ heap[ptr].asize > 0 =>
             heap[ptr].unit > 0 /\ heap[ptr].asize % heap[ptr].unit = 0

\* a buffer that grew twice, and a clone that holds bytes
BufferCapacityWitness ==
    /\ \E ptr \in 1..Len(heap) :
          /\ heap[ptr].unit = 2 /\ heap[ptr].asize = 4 /\ heap[ptr].size = 3
    /\ io.op = "clone" /\ io.status = "ok"
    /\ heap[Len(heap)].size > 0

\* C12: no step of a caller changes or removes a byte a buffer holds: what
\* a buffer held before the step is a prefix of what it holds after.
BufferAppendOnly ==
    [][\A ptr \in 1..Len(heap) :
          IsPrefix(as_ref(heap[ptr]), as_ref(heap'[ptr]))]_vars

\* C13: no native buffer is freed twice, the native buffer of every owning
\* Buffer that was dropped is freed, and no buffer is freed unless an owning
\* Buffer of it was dropped.
BufferFreedOnce ==
    /\ \A ptr \in 1..Len(heap) : heap[ptr].frees <= 1
    /\ \A i \in 1..Len(bufs) :
          bufs[i].dropped /\ bufs[i].is_owned =>
             heap[bufs[i].buffer].frees = 1
    /\ \A ptr \in 1..Len(heap) :
          heap[ptr].frees > 0 =>
             \E i \in 1..Len(bufs) :
                bufs[i].buffer = ptr /\ bufs[i].is_owned /\ bufs[i].dropped

\* C14: a read to the end of a Buffer ends, and what it collected is the
\* bytes of the Buffer, once.
ReadToEnd ==
    /\ [](io.op = "read_from" =>
             IsPrefix(io.dest, as_ref(heap[bufs[io.src].buffer])))
    /\ [](io.op = "read_from" /\ io.status = "ok" =>
             io.text = as_ref(heap[bufs[io.src].buffer]))
    /\ (io.status = "reading" ~> io.status = "ok")

\* UTF-8 by its definition: the bytes are the encodings of Unicode scalar
\* values, each in its shortest form, one after the other.

IsScalar(c) == (c >= 0 /\ c <= 55295) \/ (c >= 57344 /\ c <= 1114111)

Encode(c) ==
    IF c < 128 THEN <<c>>
    ELSE IF c < 2048 THEN <<192 + (c \div 64), 128 + (c % 64)>>
    ELSE IF c < 65536
    THEN <<224 + (c \div 4096), 128 + ((c \div 64) % 64), 128 + (c % 64)>>
    ELSE <<240 + (c \div 262144), 128 + ((c \div 4096) % 64),
           128 + ((c \div 64) % 64), 128 + (c % 64)>>

\* the value the bytes of one character would stand for
Decode(ch) ==
    CASE Len(ch) = 1 -> ch[1]
      [] Len(ch) = 2 -> (ch[1] - 192) * 64 + (ch[2] - 128)
      [] Len(ch) = 3 ->
            (ch[1] - 224) * 4096 + (ch[2] - 128) * 64 + (ch[3] - 128)
      [] OTHER ->
            (ch[1] - 240) * 262144 + (ch[2] - 128) * 4096
               + (ch[3] - 128) * 64 + (ch[4] - 128)

IsChar(ch) == IsScalar(Decode(ch)) /\ Encode(Decode(ch)) = ch

RECURSIVE IsUtf8(_)
IsUtf8(v) ==
    \/ v = <<>>
    \/ \E n \in 1..(IF Len(v) < 4 THEN Len(v) ELSE 4) :
          /\ IsChar(SubSeq(v, 1, n))
          /\ IsUtf8(SubSeq(v, n + 1, Len(v)))

\* C15: to_str returns; it returns the bytes as text exactly when they are
\* UTF-8 and an error otherwise, and leaves the buffer as it was.
ToStr ==
    /\ [](io.op = "to_str" =>
             LET bytes == as_ref(heap[bufs[io.src].buffer])
             IN /\ io.status = "ok"
                /\ io.ok <=> IsUtf8(bytes)
                /\ io.ok => io.text = bytes
                /\ ~io.ok => io.text = <<>>)
    /\ [][io'.op = "to_str" => heap' = heap /\ bufs' = bufs]_vars

\* to_str has refused the encoding of a surrogate
ToStrWitness ==
    /\ io.op = "to_str"
    /\ ~io.ok
    /\ as_ref(heap[bufs[io.src].buffer]) = <<65, 237, 160, 128>>

----------------------------------------------------------------------------
(* Footnotes *)

\* the labels of the references `[^k]` of the text d from byte p on, in
\* order; a definition `[^k]:` is not a reference
RECURSIVE RefLabels(_, _)
RefLabels(d, p) ==
    IF p + 3 > Len(d) THEN <<>>
    ELSE IF /\ d[p] = "[" /\ d[p + 1] = "^" /\ d[p + 3] = "]"
            /\ (p + 4 > Len(d) \/ d[p + 4] # ":")
    THEN <<d[p + 2]>> \o RefLabels(d, p + 4)
    ELSE RefLabels(d, p + 1)

\* the labels the text defines
DefLabels(d) ==
    {d[p + 2] : p \in {q \in 1..(Len(d) - 4) :
                          /\ d[q] = "[" /\ d[q + 1] = "^"
                          /\ d[q + 3] = "]" /\ d[q + 4] = ":"}}

\* the elements of s, each at its first place
RECURSIVE Firsts(_, _)
Firsts(s, seen) ==
    IF s = <<>> THEN <<>>
    ELSE IF Head(s) \in seen THEN Firsts(Tail(s), seen)
    ELSE <<Head(s)>> \o Firsts(Tail(s), seen \cup {Head(s)})

\* the labels that are defined and referenced, in the order of their first
\* references
Referenced(d) ==
    Firsts(SelectSeq(RefLabels(d, 1), LAMBDA k : k \in DefLabels(d)), {})

\* what the calls wrote, one after the other
RECURSIVE Emitted(_)
Emitted(tr) == IF tr = <<>> THEN <<>> ELSE Head(tr).emit \o Emitted(Tail(tr))

Places(m) == {k \in 1..Len(calls) : calls[k].m = m}

\* C16: at the end of a render with FOOTNOTES, footnote_definition was
\* called once for each definition that is referenced, with the numbers 1, 2,
\* .. in the order of the first references and each time with the text of
\* that definition; footnotes was called once, after the definitions and
\* after every block of the body, with what the definitions wrote.
FootnoteOrder ==
    Returned /\ FullRender /\ contains(md.extensions, FOOTNOTES) =>
       LET want == Referenced(md.contents)
           defs == CallsOf(calls, "footnote_definition")
           lists == CallsOf(calls, "footnotes")
       IN /\ Len(defs) = Len(want)
          /\ \A i \in 1..Len(defs) :
                /\ defs[i].n = i
                /\ \E j \in 1..Len(defs[i].text) :
                      defs[i].text[j] = want[i]
                /\ \A j \in 1..Len(defs[i].text) :
                      \A k \in 1..Len(want) :
                         defs[i].text[j] = want[k] => k = i
          /\ Len(lists) = (IF want = <<>> THEN 0 ELSE 1)
          /\ \A k \in Places("footnotes") :
                /\ \A j \in Places("footnote_definition") : j < k
                /\ \A j \in Places("paragraph") :
                      calls[j].depth = 0 => j < k
                /\ calls[k].text = Emitted(defs)

\* two definitions, referenced in the other order
FootnoteOrderWitness ==
    /\ Returned /\ FullRender /\ rndr.kind = "DocRenderer"
    /\ Referenced(md.contents) = <<"2", "1">>
    /\ IsPrefix(NoteDefs(<<1, 2>>), md.contents)
    /\ Len(CallsOf(calls, "footnote_definition")) = 2

----------------------------------------------------------------------------
(* Code blocks *)

\* the lines of the text, without their newlines
RECURSIVE SplitLines(_)
SplitLines(d) ==
    IF d = <<>> THEN <<>>
    ELSE LET ends == {k \in 1..Len(d) : d[k] = "\n"} \cup {Len(d) + 1}
             k == CHOOSE x \in ends : \A y \in ends : x <= y
         IN <<SubSeq(d, 1, k - 1)>> \o SplitLines(SubSeq(d, k + 1, Len(d)))

Blank(line) == \A k \in 1..Len(line) : line[k] = " "

\* the bytes at the start of the line that are its first byte again
Run(line) ==
    IF line = <<>> THEN 0
    ELSE LET others == {k \in 1..Len(line) : line[k] # line[1]}
                         \cup {Len(line) + 1}
         IN (CHOOSE x \in others : \A y \in others : x <= y) - 1

Opens(line) == Run(line) >= 3 /\ line[1] \in {Backtick, "~"}

\* the first word of the line after its first n bytes
Word(line, n) ==
    LET rest == SkipSpace(SubSeq(line, n + 1, Len(line)))
        stops == {k \in 1..Len(rest) : rest[k] = " "} \cup {Len(rest) + 1}
    IN SubSeq(rest, 1, (CHOOSE x \in stops : \A y \in stops : x <= y) - 1)

Indented(line) == Len(line) > 4 /\ SubSeq(line, 1, 4) = Indent /\ ~Blank(line)

\* the lines after the line that closes the fence
RECURSIVE AfterFence(_, _)
AfterFence(lines, fence) ==
    IF lines = <<>> THEN <<>>
    ELSE IF SubSeq(Head(lines), 1, Run(Head(lines))) = fence
            /\ Blank(SubSeq(Head(lines), Run(Head(lines)) + 1,
                            Len(Head(lines))))
    THEN Tail(lines)
    ELSE AfterFence(Tail(lines), fence)

\* the lines from the first line with text and no indentation
RECURSIVE FromText(_)
FromText(lines) ==
    IF lines = <<>> \/ (~Blank(Head(lines)) /\ ~Indented(Head(lines)))
    THEN lines
    ELSE FromText(Tail(lines))

\* the lines from the first blank line
RECURSIVE FromBlank(_)
FromBlank(lines) ==
    IF lines = <<>> \/ Blank(Head(lines)) THEN lines
    ELSE FromBlank(Tail(lines))

\* the languages of the code blocks of a document, one for each block in
\* order: the word after the fence, no bytes for an indented block
RECURSIVE Languages(_, _)
Languages(lines, exts) ==
    IF lines = <<>> THEN <<>>
    ELSE LET l == Head(lines)
         IN IF Blank(l) THEN Languages(Tail(lines), exts)
            ELSE IF contains(exts, FENCED_CODE) /\ Opens(l)
            THEN <<Word(l, Run(l))>>
                   \o Languages(AfterFence(Tail(lines), SubSeq(l, 1, Run(l))),
                                exts)
            ELSE IF ~contains(exts, DISABLE_INDENTED_CODE) /\ Indented(l)
            THEN <<<<>>>>
                   \o Languages(FromText(Tail(lines)), exts)
            ELSE Languages(FromBlank(Tail(lines)), exts)

\* the language of a code block as the callback was given it: the bytes of
\* the buffer in a one-element sequence, or nothing when no buffer was given
Language(c) ==
    IF rndr.kind \in NativeKinds
    THEN (IF "link" \in c.null THEN None ELSE Some(c.link))
    ELSE c.link

----------------------------------------------------------------------------
(* Emphasis *)

EmphMarkers == {"*", "_"}

EmphFamily == {"emphasis", "double_emphasis", "triple_emphasis", "underline"}

\* the first place of d from k on that holds a byte of the set, or the
\* place after the end
First(d, k, set) ==
    LET at == {j \in k..Len(d) : d[j] \in set} \cup {Len(d) + 1}
    IN CHOOSE x \in at : \A y \in at : x <= y

\* the span of the text between two runs of one marker: the marker, the
\* lengths of the two runs and the bytes between them
Marked(d) ==
    LET open == First(d, 1, EmphMarkers)
        c == IF open <= Len(d) THEN d[open] ELSE ""
        from == First(d, open, {d[j] : j \in 1..Len(d)} \ {c})
        to == First(d, from, {c})
        end == First(d, to, {d[j] : j \in 1..Len(d)} \ {c})
    IN [c |-> c, n |-> from - open, closed |-> end - to,
        text |-> SubSeq(d, from, to - 1)]

\* the method for a span between runs of n markers c
EmphKind(n, c, exts) ==
    IF n >= 3 THEN "triple_emphasis"
    ELSE IF n = 2 THEN "double_emphasis"
    ELSE IF c = "_" /\ contains(exts, UNDERLINE) THEN "underline"
    ELSE "emphasis"

Entity ==
    [c \in Unsafe |->
        CASE c = "<" -> "&lt;"
          [] c = ">" -> "&gt;"
          [] c = "&" -> "&amp;"
          [] c = "\"" -> "&quot;"
          [] c = "'" -> "&#39;"]

\* the text with an entity in the place of each unsafe byte
Escaped(text) ==
    [i \in 1..Len(text) |->
        IF text[i] \in Unsafe THEN Entity[text[i]] ELSE text[i]]

CodeOpen(lang) ==
    IF lang = <<>> THEN <<"<pre><code>">>
    ELSE <<"<pre><code class=\"language-">> \o Escaped(lang) \o <<"\">">>

\* what a text callback of the HTML renderer is to write for its text
TextEmit(c) ==
    CASE c.m = "normal_text" -> Escaped(c.text)
      [] c.m = "code_span" -> <<"<code>">> \o Escaped(c.text) \o <<"</code>">>
      [] c.m = "code_block" ->
            CodeOpen(c.link) \o Escaped(c.text) \o <<"</code></pre>\n">>

\* the render made one paragraph of normal text and nothing else
OnlyText ==
    /\ Returned /\ CurOp = "render"
    /\ \E k \in 1..Len(calls) : calls[k].m = "normal_text"
    /\ \A k \in 1..Len(calls) :
          calls[k].m \in {"normal_text", "paragraph"} \cup MiscMethods

\* C19: with the HTML renderer, what normal_text, code_span and code_block
\* write for their text is the text with each of < > & " ' replaced by its
\* entity and every other byte as it was (after the tags of the span or the
\* block, and the separating newline of a block), and a paragraph of normal
\* text alone comes out as its escaped bytes between <p> and </p>.
HtmlEscapes ==
    rndr.kind = "Html" =>
       /\ \A k \in 1..Len(calls) :
             calls[k].m \in TextMethods =>
                calls[k].emit \in {TextEmit(calls[k]),
                                   <<"\n">> \o TextEmit(calls[k])}
       /\ OnlyText =>
             output = <<"<p>">> \o Escaped(md.contents) \o <<"</p>\n">>

\* a paragraph, a code span and a code block with unsafe bytes, rendered
HtmlEscapesWitness ==
    /\ Returned /\ CurOp = "render" /\ rndr.kind = "Html"
    /\ \/ OnlyText /\ md.contents = <<"a", " ", "<", "'">>
          /\ output = <<"<p>", "a", " ", "&lt;", "&#39;", "</p>\n">>
       \/ /\ md.contents = <<Backtick, "&", "\"", Backtick>>
          /\ \E k \in 1..Len(calls) :
                /\ calls[k].m = "code_span"
                /\ calls[k].emit = <<"<code>", "&amp;", "&quot;", "</code>">>
       \/ /\ md.contents = Indent \o <<">", "a", "\n">>
          /\ \E k \in 1..Len(calls) :
                /\ calls[k].m = "code_block"
                /\ calls[k].emit = <<"<pre><code>", "&gt;", "a", "\n",
                                     "</code></pre>\n">>

(* The strikethrough scenario. *)

\* "I'm ~~running~~ out of ideas." rendered under STRIKETHROUGH by Html
StrikeRendered ==
    /\ Returned /\ CurOp = "render" /\ rndr = Html_new(0, 0)
    /\ md.contents = Strikethrough
    /\ contains(md.extensions, STRIKETHROUGH)

StruckText == <<"r", "u", "n", "n", "i", "n", "g">>

OutOfIdeas == <<" ", "o", "u", "t", " ", "o", "f", " ", "i", "d", "e", "a", "s", ".">>

\* C20, as stated: the output is <p>I'm <del>running</del> out of ideas.</p>
\* and a newline, the apostrophe literal.
StrikeLiteral ==
    StrikeRendered =>
       output = <<"<p>", "I", "'", "m", " ", "<del>">> \o StruckText
                   \o <<"</del>">> \o OutOfIdeas \o <<"</p>\n">>

\* C20: the output is <p>I&#39;m <del>running</del> out of ideas.</p> and a
\* newline: the strikethrough content is wrapped in <del>, the apostrophe is
\* escaped as &#39; and no typographic substitution is made.
StrikeEscaped ==
    StrikeRendered =>
       output = <<"<p>", "I", "&#39;", "m", " ", "<del>">> \o StruckText
                   \o <<"</del>">> \o OutOfIdeas \o <<"</p>\n">>

\* the scenario was rendered: strikethrough was given "running"
StrikeWitness ==
    /\ StrikeRendered
    /\ \E k \in 1..Len(calls) :
          /\ calls[k].m = "strikethrough"
          /\ calls[k].text = StruckText
          /\ calls[k].emit = <<"<del>">> \o StruckText \o <<"</del>">>
    /\ \E k \in 1..Len(calls) :
          calls[k].m = "normal_text" /\ Count(calls[k].text, "'") = 1

(* Raw HTML under the flags of the HTML renderer. *)

Passes == ~contains(rndr.flags, SKIP_HTML) /\ ~contains(rndr.flags, ESCAPE)

Skips == contains(rndr.flags, SKIP_HTML) /\ ~contains(rndr.flags, ESCAPE)

Escapes == contains(rndr.flags, ESCAPE) /\ ~contains(rndr.flags, SKIP_HTML)

\* what the raw HTML bytes become under the flags
RawOut(raw) ==
    IF Passes THEN raw ELSE IF Skips THEN <<>> ELSE Escaped(raw)

Para(text) == <<"<p>">> \o Escaped(text) \o <<"</p>\n">>

\* the outputs of the blocks, a newline between two of them
RECURSIVE JoinBlocks(_)
JoinBlocks(outs) ==
    IF outs = <<>> THEN <<>>
    ELSE IF Head(outs) = <<>> THEN JoinBlocks(Tail(outs))
    ELSE LET rest == JoinBlocks(Tail(outs))
         IN Head(outs) \o (IF rest = <<>> THEN <<>> ELSE <<"\n">> \o rest)

RawSpanOut(pre, t, post) ==
    <<"<p>">> \o (IF pre THEN <<"c", " ">> ELSE <<>>) \o RawOut(OpenB)
        \o Escaped(t) \o RawOut(CloseB)
        \o (IF post THEN <<" ", "c">> ELSE <<>>) \o <<"</p>\n">>

RawBlockOut(pre, t, post) ==
    LET raw == RawOut(OpenP \o t \o CloseP)
    IN JoinBlocks(<<IF pre THEN Para(<<"c">>) ELSE <<>>,
                    IF raw = <<>> THEN <<>> ELSE raw \o <<"\n">>,
                    IF post THEN Para(<<"c">>) ELSE <<>>>>)

StartsWith(r, p) == Len(r) >= Len(p) /\ SubSeq(r, 1, Len(p)) = p

Drop(r, n) == SubSeq(r, n + 1, Len(r))

\* r is a copy of c with each --- as &mdash;, each -- left as &ndash;, each
\* ... as &hellip;, each quote as one of its two curly entities, and every
\* other byte as it is, read from left to right
RECURSIVE Substituted(_, _)
Substituted(c, r) ==
    IF c = <<>> THEN r = <<>>
    ELSE IF StartsWith(c, <<45, 45, 45>>)
    THEN StartsWith(r, Mdash) /\ Substituted(Drop(c, 3), Drop(r, Len(Mdash)))
    ELSE IF StartsWith(c, <<45, 45>>)
    THEN StartsWith(r, Ndash) /\ Substituted(Drop(c, 2), Drop(r, Len(Ndash)))
    ELSE IF StartsWith(c, <<46, 46, 46>>)
    THEN StartsWith(r, Hellip) /\ Substituted(Drop(c, 3), Drop(r, Len(Hellip)))
    ELSE IF c[1] = 39
    THEN /\ StartsWith(r, Lsquo) \/ StartsWith(r, Rsquo)
         /\ Substituted(Drop(c, 1), Drop(r, Len(Lsquo)))
    ELSE IF c[1] = 34
    THEN /\ StartsWith(r, Ldquo) \/ StartsWith(r, Rdquo)
         /\ Substituted(Drop(c, 1), Drop(r, Len(Ldquo)))
    ELSE r # <<>> /\ r[1] = c[1] /\ Substituted(Drop(c, 1), Drop(r, 1))

\* the Buffer that was the output of the call
SmartOutput == heap[bufs[3 - io.src].buffer]

\* C22: after smartypants(content, output) the output holds what it held
\* and then the content with its dashes, dots and quotes substituted in one
\* pass from left to right, every other byte copied, and the content holds
\* what it held; an apostrophe after a letter is &rsquo; and a pair of
\* double quotes around a word is &ldquo; and &rdquo;, as in the tests.
Smartypants ==
    io.op = "smartypants" =>
       /\ as_ref(heap[bufs[io.src].buffer]) = io.text
       /\ StartsWith(as_ref(SmartOutput), io.dest)
       /\ Substituted(io.text, Drop(as_ref(SmartOutput), Len(io.dest)))
       /\ io.text = <<97, 39, 97>> =>
             as_ref(SmartOutput) = io.dest \o <<97>> \o Rsquo \o <<97>>
       /\ io.text = <<34, 97, 46, 34>> =>
             as_ref(SmartOutput) = io.dest \o Ldquo \o <<97, 46>> \o Rdquo

\* four dashes appended to an output that held a byte: &mdash; and a dash
SmartypantsWitness ==
    /\ io.op = "smartypants"
    /\ io.text = <<45, 45, 45, 45>>
    /\ io.dest = <<97>>
    /\ as_ref(SmartOutput) = <<97>> \o Mdash \o <<45>>

(* Extensions and the text that does not use them. *)

\* the buffer ob after r.render_to(m, ob): the steps of a render, one after
\* the other
RenderedTo(r, m, ob) ==
    LET d == Document_render(Document_new(to_hoedown(r), m.extensions,
                                          m.max_nesting), m.contents)
        e == [Engine(d.md, d.ext_flags, d.max_nesting, r)
                 EXCEPT !.footnotes_found = d.footnotes_found]
        head == Do("Invoke", <<e, "before_render", ob, NoArgs, 0>>)
        body == IF d.text = <<>> THEN head
                ELSE Do("parse_block", <<head.e, head.ob, d.text, 0>>)
        notes == IF contains(d.ext_flags, FOOTNOTES)
                 THEN Do("parse_footnote_list", <<body.e, body.ob, 0>>)
                 ELSE body
    IN Do("Invoke", <<notes.e, "after_render", notes.ob, NoArgs, 0>>).ob

\* the output of r.render(m)
Rendered(r, m) == RenderedTo(r, m, <<>>)

Toggled(bits, x) == IF contains(bits, x) THEN bits - x ELSE bits + x

HasByte(d, c) == \E k \in 1..Len(d) : d[k] = c

\* a run of emphasis markers with text right before it and right after it
InWord(d) ==
    \E i \in 2..(Len(d) - 1), j \in 2..(Len(d) - 1) :
       /\ i <= j
       /\ \A k \in i..j : d[k] \in {"*", "_", "~", "="}
       /\ d[i - 1] \notin {" ", "\n", "*", "_", "~", "="}
       /\ d[j + 1] \notin {" ", "\n", "*", "_", "~", "="}

\* the text uses the syntax of the extension x
Uses(x, d) ==
    CASE x = FENCED_CODE -> \E k \in 1..Len(SplitLines(d)) :
                               Opens(SkipSpace(SplitLines(d)[k]))
      [] x = FOOTNOTES -> \E k \in 1..(Len(d) - 1) : d[k] = "[" /\ d[k + 1] = "^"
      [] x = STRIKETHROUGH -> HasByte(d, "~")
      [] x = UNDERLINE -> HasByte(d, "_")
      [] x = HIGHLIGHT -> HasByte(d, "=")
      [] x = QUOTE -> HasByte(d, "\"")
      [] x = SUPERSCRIPT -> HasByte(d, "^")
      [] x = MATH -> HasByte(d, "$")
      [] x = MATH_EXPLICIT -> HasByte(d, "$")
      [] x = NO_INTRA_EMPHASIS -> InWord(d)
      [] x = SPACE_HEADERS ->
            \E k \in 1..Len(SplitLines(d)) :
               LET l == SplitLines(d)[k]
               IN l # <<>> /\ l[1] = "#" /\ Run(l) < Len(l) /\ l[Run(l) + 1] # " "
      [] x = DISABLE_INDENTED_CODE ->
            \E k \in 1..Len(SplitLines(d)) : Indented(SplitLines(d)[k])

Named ==
    {"TABLES", "FENCED_CODE", "FOOTNOTES", "AUTOLINK", "STRIKETHROUGH",
     "UNDERLINE", "HIGHLIGHT", "QUOTE", "MATH", "NO_INTRA_EMPHASIS",
     "SPACE_HEADERS", "MATH_EXPLICIT", "DISABLE_INDENTED_CODE"}

RECURSIVE IsSingleBit(_)
IsSingleBit(n) == n = 1 \/ (n > 1 /\ n % 2 = 0 /\ IsSingleBit(n \div 2))

\* the flags the caller named are the flags the document has
FlagsSet ==
    hist # <<>> /\ hist[Len(hist)].op = "extensions" =>
       /\ \A n \in DOMAIN Extension :
             contains(md.extensions, Extension[n]) <=> n \in hist[Len(hist)].flags
       /\ Extension_from_bits(md.extensions) = <<[bits |-> md.extensions]>>

EachOneBit ==
    /\ \A n \in DOMAIN Extension : IsSingleBit(Extension[n])
    /\ \A n, k \in DOMAIN Extension : n # k => Extension[n] # Extension[k]

\* C24, as stated: the flags are exactly the 13 named features, each a
\* distinct single bit, and every subset of the flags is a valid extension
\* set.
ThirteenFlags ==
    /\ DOMAIN Extension = Named
    /\ EachOneBit
    /\ FlagsSet

\* C24: the flags are exactly the 13 named features and superscript, 14 in
\* all, each a distinct single bit, and every subset of the flags is a valid
\* extension set: the document has exactly the flags that were put together.
FourteenFlags ==
    /\ DOMAIN Extension = Named \cup {"SUPERSCRIPT"}
    /\ Cardinality(DOMAIN Extension) = 14
    /\ EachOneBit
    /\ FlagsSet

\* superscript and math put together
FourteenFlagsWitness ==
    /\ hist # <<>> /\ hist[Len(hist)].op = "extensions"
    /\ hist[Len(hist)].flags = {"SUPERSCRIPT", "MATH"}
    /\ md.extensions = 768

(* Render calls of two threads. *)

\* the two calls have renderers and output buffers of their own
Independent ==
    /\ script[1].r # script[2].r
    /\ \A t \in Threads : script[t].op = "render_to" =>
          script[t].ob # script[3 - t].ob

\* C25: when two threads render distinct documents with distinct renderer
\* instances into distinct output buffers, then however their steps are
\* interleaved the output of each call, once it has returned, is the output
\* of that call made alone.
ParallelRenders ==
    Independent =>
       \A t \in Threads :
          pc[t] = "done" =>
             output[script[t].ob] =
                Rendered(IF rndr[script[t].r].kind = "Toc" THEN Html_toc(6)
                         ELSE Html_new(0, 0), md[t])

\* both calls have returned, each with a table of contents of its own
ParallelRendersWitness ==
    /\ Independent
    /\ pc = <<"done", "done">>
    /\ rndr[1].kind = "Toc" /\ rndr[2].kind = "Toc"
    /\ md[1].contents = Rep(2, <<"#", " ", "a", "\n", "\n">>)
    /\ md[2].contents = Rep(1, <<"#", " ", "a", "\n", "\n">>)
    /\ output[script[1].ob] # <<>>
    /\ output[script[2].ob] # <<>>
    /\ output[script[1].ob] # output[script[2].ob]

----------------------------------------------------------------------------
(* Wrapping renderers: tests/markdown.rs (test_wrapper), tests/trait.rs     *)
(* (test_html_wrapper).                                                     *)

\* the renderers that are wrapped
WrapBases ==
    {Html_new(0, 0), Html_new(USE_XHTML + ESCAPE, 3), Html_toc(6), Plain,
     SpanRenderer, BlockRenderer}

\* the methods one impl of Wrapper overrides
WrapOvers == {"emphasis", "paragraph", "normal_text", "header", "after_render"}

WrapBodies ==
    SpanBodies
      \cup {f \o g : f \in BlockFrags, g \in BlockFrags \cup {<<>>}}
      \cup {<<"a", " ", "_", "b", "_", " ", "*", "*", "c", "*", "*">>}

InitWrap ==
    \/ InitOf(WrapBodies, {0, SpanExts + FOOTNOTES}, {DefaultNesting},
              {Wrapped(b, "") : b \in WrapBases}
                \cup {Wrapped(Html_new(0, 0), "emphasis")},
              {<<>>}, {<<Op("render")>>})
    \/ InitOf({<<>>}, {0}, {DefaultNesting},
              {Wrapped(b, o) : b \in WrapBases, o \in WrapOvers \cup {""}},
              {<<>>, <<"x">>},
              {<<CallOp(m, a)>> : m \in Methods, a \in CallArgs})
    \/ InitEntries({Wrapped(Html_new(0, 0), "")})

SpecWrap == InitWrap /\ [][Next]_vars

\* the arguments of a direct call, from the trace of the call
CallArgsOf(c) ==
    [text |-> c.text, link |-> c.link, title |-> <<>>, n |-> c.n,
     flag |-> c.flag, null |-> c.null]

\* the last operation was a direct call of a method of a wrapping renderer
WrapCalled ==
    /\ hist # <<>> /\ script = <<>> /\ hist[Len(hist)].op = "call"
    /\ hist[Len(hist)].before.kind = "Wrapper"

\* the marks of HtmlWrapper in the place of the tags of emphasis
Tilded(out) ==
    [i \in 1..Len(out) |->
        IF out[i] \in {"<em>", "</em>"} THEN "~~" ELSE out[i]]

\* a render by a wrapping renderer has returned
WrapRendered ==
    Returned /\ CurOp \in {"render", "render_to"} /\ doc.before.kind = "Wrapper"

\* what the base answers when the caller calls it with the same arguments
WrapBaseCalled ==
    LET h == hist[Len(hist)]
    IN Do("Method", <<h.before.base, h.calls[1].m, h.prior,
                      CallArgsOf(h.calls[1])>>)

\* the native table of the base has every entry, as the HTML renderer's has
FullTable(base) == base.kind \in NativeKinds => Registered(base) = Methods

----------------------------------------------------------------------------
(* Closures: the documentation of Closures in src/renderer/closures.rs      *)

ClosureBases == {Html_new(0, 0), Html_toc(6), DocRenderer, SpanRenderer, Plain}

OnOp(m) == [op |-> "on", m |-> m, a |-> NoArgs]

\* a closure is registered for one method, or for none, and a method is
\* called or a document rendered
InitClosures ==
    \/ InitOf({<<>>}, {0}, {DefaultNesting},
              {Closures_new(b) : b \in ClosureBases}, {<<>>, <<"x">>},
              {<<OnOp(o), CallOp(m, a)>> : o \in Methods, m \in Methods,
                                           a \in CallArgs}
                \cup {<<CallOp(m, a)>> : m \in Methods, a \in CallArgs})
    \/ InitOf({<<"a", " ", "_", "b", "_", "\n">>, <<"#", " ", "a", "\n">>},
              {0}, {DefaultNesting},
              {Closures_new(b) : b \in ClosureBases}, {<<>>},
              {<<OnOp(o), Op("render")>> : o \in Methods}
                \cup {<<Op("render")>>})

NextClosures ==
    \/ on_closure
    \/ call
    \/ render
    \/ doc_header
    \/ block
    \/ footnotes
    \/ doc_footer
    \/ Document_drop

SpecClosures == InitClosures /\ [][NextClosures]_vars

\* the last operation was a direct call of a method of a Closures renderer
ClosuresCalled ==
    /\ hist # <<>> /\ script = <<>> /\ hist[Len(hist)].op = "call"
    /\ hist[Len(hist)].before.kind = "Closures"

\* what the base answers when the caller calls it with the same arguments
ClosuresBaseCalled ==
    LET h == hist[Len(hist)]
    IN Do("Method", <<h.before.base, h.calls[1].m, h.prior,
                      CallArgsOf(h.calls[1])>>)

\* what the closure answers when it is called with the same arguments
ClosureCalled ==
    LET h == hist[Len(hist)]
    IN Closure(h.calls[1].m, h.prior, CallArgsOf(h.calls[1]))

\* the method called has a closure
ClosureRegistered ==
    hist[Len(hist)].calls[1].m \in hist[Len(hist)].before.on

\* the closure took the place of the handler of the base
ClosureReplaces ==
    /\ rndr.ran = <<"closure">>
    /\ output = ClosureCalled.ob
    /\ hist[Len(hist)].calls[1].handled = ClosureCalled.ret
    /\ rndr.base = hist[Len(hist)].before.base

\* the call went to the base alone
ClosuresDelegates ==
    /\ rndr.ran = <<"base">>
    /\ output = ClosuresBaseCalled.ob
    /\ hist[Len(hist)].calls[1].handled = ClosuresBaseCalled.ret
    /\ rndr.base = ClosuresBaseCalled.r

ClosureThenBase ==
    LET h == hist[Len(hist)]
        res == Do("Method", <<h.before.base, h.calls[1].m, ClosureCalled.ob,
                              CallArgsOf(h.calls[1])>>)
    IN /\ rndr.ran = <<"closure", "base">>
       /\ output = res.ob
       /\ rndr.base = res.r

\* a render by a Closures renderer has returned
ClosuresRendered ==
    Returned /\ CurOp = "render" /\ doc.before.kind = "Closures"

----------------------------------------------------------------------------
(* The lifetimes of a render call: Render::render_to and its siblings in    *)
(* src/renderer/mod.rs, Markdown::render_into_buffer and its sibling in     *)
(* src/markdown.rs, Drop for Document in src/document.rs.  The table of     *)
(* callbacks holds a pointer to the renderer, the document a copy of the    *)
(* table.  doc.table is the table while the function owns it, hist the      *)
(* record of the values made, dropped and of the returns.                   *)

\* the calls that borrow the renderer
BorrowOps == {"render", "render_to", "render_inline", "render_inline_to"}

\* the calls that take the renderer by value
MoveOps == {"render_into_buffer", "render_inline_into_buffer"}

\* the values a call owns, in the order its body declares them: the
\* parameter `renderer`, then `let renderer = .. to_hoedown()`, then
\* `let doc = Document::new(..)`
Declared(op) ==
    IF op \in MoveOps THEN <<"Render", "hoedown_renderer", "Document">>
    ELSE <<"hoedown_renderer", "Document">>

\* mutation: the values are dropped in the order they were declared
Scope_exit_declared(op) == Declared(op)

\* the end of the body: the values are dropped in the reverse of the order
\* they were declared
Scope_exit(op) ==
    [i \in 1..Len(Declared(op)) |-> Declared(op)[Len(Declared(op)) + 1 - i]]

\* a renderer that was dropped
Dropped == [kind |-> "Dropped"]

\* the document exists: hoedown_document_new has made it and
\* hoedown_document_free has not freed it
DocLive == "text" \in DOMAIN doc

\* the table of callbacks exists
TableLive == "table" \in DOMAIN doc

\* the record d without the field f
Without(d, f) == [x \in DOMAIN d \ {f} |-> d[x]]

Event(op, of) == [op |-> op, of |-> of]

\* `let renderer = unsafe { self.to_hoedown() }`
life_to_hoedown ==
    /\ pc = "idle" /\ script # <<>>
    /\ Head(script).op \in BorrowOps \cup MoveOps
    /\ rndr # Dropped
    /\ doc' = [md |-> "none", table |-> to_hoedown(rndr)]
    /\ output' = IF Head(script).op \in {"render", "render_inline"} THEN <<>>
                 ELSE output
    /\ pc' = "to_hoedown"
    /\ hist' = Append(hist, Event("new", "hoedown_renderer"))
    /\ UNCHANGED <<md, rndr, calls, script>>
    /\ UNCHANGED buffer_vars

\* `let doc = Document::new(&renderer, ..)` and the entry into doc.render or
\* doc.render_inline
life_Document_new ==
    /\ pc = "to_hoedown"
    /\ LET d == Document_new(doc.table, md.extensions, md.max_nesting)
           spans == Head(script).op \in {"render_inline", "render_inline_to",
                                          "render_inline_into_buffer"}
       IN doc' = (IF spans THEN Document_render_inline(d, md.contents)
                  ELSE Document_render(d, md.contents))
                   @@ [before |-> rndr, prior |-> output, table |-> doc.table]
    /\ pc' = "doc_header"
    /\ calls' = <<>>
    /\ hist' = Append(hist, Event("new", "Document"))
    /\ UNCHANGED <<md, rndr, output, script>>
    /\ UNCHANGED buffer_vars

\* the values of the scope dropped so far
ExitAt == CASE pc = "free" -> 1 [] pc = "exit2" -> 2 [] pc = "exit3" -> 3

ExitPc(i) == CASE i = 1 -> "free" [] i = 2 -> "exit2" [] i = 3 -> "exit3"

\* the end of the body drops the next value of the scope: Drop for Document
\* is hoedown_document_free, the table is plain data, the renderer is
\* dropped by the calls that took it by value
life_drop ==
    /\ pc \in {"free", "exit2", "exit3"}
    /\ ExitAt <= Len(Scope_exit(Head(script).op))
    /\ LET of == Scope_exit(Head(script).op)[ExitAt]
       IN /\ doc' = CASE of = "Document" ->
                              IF TableLive
                              THEN [md |-> "none", table |-> doc.table]
                              ELSE NoDoc
                      [] of = "hoedown_renderer" -> Without(doc, "table")
                      [] OTHER -> doc
          /\ rndr' = IF of = "Render" THEN Dropped ELSE rndr
          /\ hist' = Append(hist, Event("drop", of))
    /\ pc' = IF ExitAt = Len(Scope_exit(Head(script).op)) THEN "return"
             ELSE ExitPc(ExitAt + 1)
    /\ UNCHANGED <<md, output, calls, script>>
    /\ UNCHANGED buffer_vars

\* the call returns to its caller
life_return ==
    /\ pc = "return"
    /\ hist' = Append(hist, Event("return", Head(script).op))
    /\ script' = Tail(script)
    /\ pc' = "idle"
    /\ UNCHANGED <<md, rndr, output, doc, calls>>
    /\ UNCHANGED buffer_vars

NextLife ==
    \/ life_to_hoedown
    \/ life_Document_new
    \/ doc_header
    \/ block
    \/ footnotes
    \/ inline
    \/ doc_footer
    \/ life_drop
    \/ life_return

LifeScripts ==
    {<<Op(o)>> : o \in BorrowOps \cup MoveOps}
      \cup {<<Op(o), Op(p)>> : o \in BorrowOps, p \in BorrowOps \cup MoveOps}

InitLife ==
    InitOf({<<"a", " ", "*", "b", "*", "\n">>, <<"#", " ", "a", "\n">>,
            <<">", " ", "a", "\n", "\n", "b", "\n">>, <<>>},
           {0}, {DefaultNesting},
           {Plain, SpanRenderer, Html_new(0, 0), Html_toc(6)}, {<<>>, <<"x">>},
           LifeScripts)

SpecLife == InitLife /\ [][NextLife]_vars

\* how many events of hist[from..to] are e
RECURSIVE Events(_, _, _)
Events(e, from, to) ==
    IF to < from THEN 0
    ELSE Events(e, from, to - 1) + (IF hist[to] = e THEN 1 ELSE 0)

\* the events of the call that returned at hist[i] start after the return
\* before it
CallStart(i) ==
    LET before == {j \in 1..(i - 1) : hist[j].op = "return"}
    IN IF before = {} THEN 1
       ELSE (CHOOSE j \in before : \A k \in before : k <= j) + 1

\* where the event e is in hist[from..to], 0 when it is not there
At0(e, from, to) ==
    IF \E j \in from..to : hist[j] = e
    THEN CHOOSE j \in from..to : hist[j] = e
    ELSE 0

\* the renderer and its table are there as long as the document is
OutlivesDocument == DocLive => TableLive /\ rndr # Dropped

\* every call that returned made its table, then its document, and freed
\* the document once, before anything else it owned and before it returned
FreedOnce ==
    \A i \in 1..Len(hist) :
       hist[i].op = "return" =>
          LET from == CallStart(i)
              table == At0(Event("new", "hoedown_renderer"), from, i)
              made == At0(Event("new", "Document"), from, i)
              freed == At0(Event("drop", "Document"), from, i)
          IN /\ Events(Event("new", "Document"), from, i) = 1
             /\ Events(Event("drop", "Document"), from, i) = 1
             /\ 0 < table /\ table < made /\ made < freed
             /\ \A j \in from..i :
                   hist[j].op = "drop" /\ hist[j].of # "Document" => freed < j

\* a step in which a callback was invoked: the trace of the calls grew
Callback == calls' # calls /\ calls' # <<>>

\* C28: in every render call the table of callbacks is made before the
\* document, the renderer and the table are there as long as the document
\* is, callbacks are invoked only while the document is there and the
\* renderer exists, and the document is freed exactly once, before the
\* table and the renderer are dropped and before the call returns.
RendererOutlives ==
    /\ [](OutlivesDocument /\ FreedOnce)
    /\ [][Callback => /\ DocLive /\ DocLive'
                      /\ rndr # Dropped /\ rndr' # Dropped]_vars

\* Markdown::render_into_buffer has returned: callbacks were invoked, the
\* document was freed and the renderer, taken by value, dropped after it
RendererOutlivesWitness ==
    /\ pc = "idle" /\ script = <<>> /\ rndr = Dropped /\ ~DocLive
    /\ calls # <<>>
    /\ hist[Len(hist)] = Event("return", "render_into_buffer")
    /\ hist[Len(hist) - 1] = Event("drop", "Render")
    /\ hist[Len(hist) - 3] = Event("drop", "Document")

----------------------------------------------------------------------------
(* The table of Render::to_hoedown field by field, src/renderer/mod.rs, and *)
(* a trampoline of src/wrappers.rs invoked by the native library on one of  *)
(* its buffers.                                                             *)

\* impl Render for Html, src/renderer/html.rs: the field of hoedown_renderer
\* each method of Render stands for
Html_field ==
    [code_block |-> "blockcode", quote_block |-> "blockquote",
     header |-> "header", horizontal_rule |-> "hrule", list |-> "list",
     list_item |-> "listitem", paragraph |-> "paragraph", table |-> "table",
     table_header |-> "table_header", table_body |-> "table_body",
     table_row |-> "table_row", table_cell |-> "table_cell",
     footnotes |-> "footnotes", footnote_definition |-> "footnote_def",
     html_block |-> "blockhtml", autolink |-> "autolink",
     code_span |-> "codespan", double_emphasis |-> "double_emphasis",
     emphasis |-> "emphasis", underline |-> "underline",
     highlight |-> "highlight", quote_span |-> "quote", image |-> "image",
     line_break |-> "linebreak", link |-> "link",
     triple_emphasis |-> "triple_emphasis",
     strikethrough |-> "strikethrough", superscript |-> "superscript",
     footnote_reference |-> "footnote_ref", math |-> "math",
     html_span |-> "raw_html", entity |-> "entity",
     normal_text |-> "normal_text", before_render |-> "doc_header",
     after_render |-> "doc_footer"]

\* the fields of hoedown_renderer that hold a callback, src/ffi.rs
Fields == {Html_field[m] : m \in Methods}

\* src/wrappers.rs: the method of Render the trampoline of each name calls
wrappers_calls ==
    [blockcode |-> "code_block", blockquote |-> "quote_block",
     header |-> "header", hrule |-> "horizontal_rule", list |-> "list",
     listitem |-> "list_item", paragraph |-> "paragraph", table |-> "table",
     table_header |-> "table_header", table_body |-> "table_body",
     table_row |-> "table_row", table_cell |-> "table_cell",
     footnotes |-> "footnotes", footnote_def |-> "footnote_definition",
     blockhtml |-> "html_block", autolink |-> "autolink",
     codespan |-> "code_span", double_emphasis |-> "double_emphasis",
     emphasis |-> "emphasis", underline |-> "underline",
     highlight |-> "highlight", quote |-> "quote_span", image |-> "image",
     linebreak |-> "line_break", link |-> "link",
     triple_emphasis |-> "triple_emphasis",
     strikethrough |-> "strikethrough", superscript |-> "superscript",
     footnote_ref |-> "footnote_reference", math |-> "math",
     raw_html |-> "html_span", entity |-> "entity",
     normal_text |-> "normal_text", doc_header |-> "before_render",
     doc_footer |-> "after_render"]

\* the default to_hoedown: field f is Some(wrappers::f::<Self>)
Render_to_hoedown_fields(r) == [f \in Fields |-> Some(f)]

\* mutation: a view that owns the buffer it was made of
Buffer_from_raw_mut_owned(ptr) == Some(Buffer(ptr, TRUE))

\* Buffer::from_raw_mut of a pointer that is not null
Buffer_from_raw_mut(ptr) == Some(Buffer(ptr, FALSE))

\* the native library calls the callback of a field with its buffer ob, the
\* arguments and the table: get_renderer, the view of ob, the method, the
\* drop of the view when the trampoline returns
trampoline ==
    /\ Next_op("invoke")
    /\ Render_to_hoedown_fields(rndr)[Head(script).m] # None
    /\ LET t == Render_to_hoedown_fields(rndr)[Head(script).m][1]
           ob == Len(heap)
           out == Buffer_from_raw_mut(ob)[1]
           before == as_ref(heap[out.buffer])
           res == Do("wrappers", <<rndr, wrappers_calls[t], before,
                                   Head(script).a>>)
           put == hoedown_buffer_put(heap[out.buffer],
                                     Appended(before, res.ob))
       IN /\ heap' = [heap EXCEPT ![out.buffer] =
                         IF Buffer_drop_frees(out, put)
                         THEN hoedown_buffer_free(put) ELSE put]
          /\ bufs' = Append(bufs, [out EXCEPT !.dropped = TRUE])
          /\ rndr' = res.r
          /\ calls' = <<Call(res.m, res.a, res.handled, res.ret, before,
                             res.ob, 0)>>
          /\ hist' = Append(hist, [op |-> "invoke", field |-> Head(script).m,
                                   before |-> rndr, prior |-> before])
    /\ script' = Tail(script)
    /\ io' = NoIo
    /\ UNCHANGED <<md, output, doc, pc>>

NextTrampoline == trampoline

InvokeOp(f, a) == [op |-> "invoke", m |-> f, a |-> a]

\* what the native library passes: buffers and a number, that is a level, a
\* flag set, a number of a note or the inline_render of doc_header
InvokeArgs ==
    {Args(<<"a">>, <<"b">>, <<>>, 1), NoArgs,
     [Args(<<"a">>, <<>>, <<>>, 0) EXCEPT !.null = {"link"}]}

TrampolineRenderers ==
    {Plain, Trace, DocRenderer, BlockRenderer, LowLevelRenderer, SpanRenderer,
     UnderlineRenderer, Wrapped(Html_new(0, 0), ""),
     Wrapped(Html_new(0, 0), "emphasis")}

InitTrampoline ==
    /\ md = Markdown_new(<<>>)
    /\ rndr \in TrampolineRenderers
    /\ output = <<>>
    /\ script \in {<<InvokeOp(f, a)>> : f \in Fields, a \in InvokeArgs}
                    \cup {<<InvokeOp(f, NoArgs), InvokeOp("paragraph", a)>> :
                             f \in Fields, a \in InvokeArgs}
    /\ doc = NoDoc
    /\ pc = "idle"
    /\ calls = <<>>
    /\ hist = <<>>
    /\ heap \in {<<hoedown_buffer_put(hoedown_buffer_new(64), x)>> :
                    x \in {<<>>, <<"x">>}}
    /\ bufs = <<>>
    /\ io = NoIo

SpecTrampoline == InitTrampoline /\ [][NextTrampoline]_vars

\* the native library has invoked a field of the table
Invoked == hist # <<>> /\ hist[Len(hist)].op = "invoke"

\* the method of Render that stands for the field that was invoked
InvokedMethod ==
    CHOOSE m \in Methods : Html_field[m] = hist[Len(hist)].field

\* what the method answers when it is called with the arguments the
\* trampoline passed
MethodCalled ==
    LET h == hist[Len(hist)]
    IN Do("Method", <<h.before, InvokedMethod, h.prior, CallArgsOf(calls[1])>>)

\* C29: the table of the default to_hoedown has a callback in every field;
\* a native invocation of a field calls the method of Render that stands for
\* that field, on the renderer behind opaque and on the bytes of the native
\* buffer; the view of the native buffer does not own it and the buffer is
\* not freed when the trampoline returns; the trampoline of a span returns 1
\* when the method returned true and 0 when it returned false.
TrampolineDispatch ==
    /\ \A f \in Fields : Render_to_hoedown_fields(rndr)[f] # None
    /\ Invoked =>
          /\ calls[1].m = InvokedMethod
          /\ as_ref(heap[1]) = MethodCalled.ob
          /\ rndr = MethodCalled.r
          /\ InvokedMethod \in SpanMethods =>
                calls[1].ret = (IF MethodCalled.ret THEN 1 ELSE 0)
          /\ ~bufs[Len(bufs)].is_owned /\ bufs[Len(bufs)].dropped
          /\ heap[1].frees = 0

\* the trampoline of emphasis has returned 1 for a method that wrote to the
\* native buffer and returned true; the buffer is still there
TrampolineDispatchWitness ==
    /\ Invoked /\ hist[Len(hist)].field = "emphasis"
    /\ hist[Len(hist)].before = SpanRenderer
    /\ calls[1].ret = 1
    /\ as_ref(heap[1]) = <<"x", "[EMPHASIS] ", "a">>
    /\ heap[1].frees = 0

----------------------------------------------------------------------------
(* Methods of Html called by a caller, src/renderer/html.rs *)

HtmlCallFlags == {0, SKIP_HTML, ESCAPE, USE_XHTML + HARD_WRAP}

HtmlCallArgs ==
    CallArgs \cup {Args(<<"<", "a">>, <<"u">>, <<>>, 2),
                   [NoArgs EXCEPT !.flag = TRUE]}

InitHtmlCalls ==
    \/ InitOf({<<>>}, {0}, {DefaultNesting},
              {Html_new(f, n) : f \in HtmlCallFlags, n \in {0, 6}}
                \cup {Html_toc(n) : n \in {0, 6}},
              {<<>>, <<"x">>},
              {<<CallOp(m, a)>> : m \in Methods, a \in HtmlCallArgs}
                \cup {<<CallOp("header", Args(<<"a">>, <<>>, <<>>, 1)),
                        CallOp(m, a)>> : m \in Methods, a \in CallArgs})
    \/ InitEntries({Html_new(0, 0), Html_toc(6)})

SpecHtmlCalls == InitHtmlCalls /\ [][Next]_vars

\* the last operation was a direct call of a method of Html
HtmlCalled ==
    /\ hist # <<>> /\ hist[Len(hist)].op = "call"
    /\ hist[Len(hist)].before.kind \in NativeKinds

\* the native table of the renderer has a callback for the method called
HtmlHasCallback ==
    hist[Len(hist)].calls[1].m \in Registered(hist[Len(hist)].before)

\* what the native callback does with the arguments of the method
NativeCalled ==
    LET h == hist[Len(hist)]
        c == h.calls[1]
        a == [CallArgsOf(c) EXCEPT
                 !.n = IF c.m \in MiscMethods THEN (IF c.flag THEN 1 ELSE 0)
                       ELSE c.n]
    IN Do("native", <<h.before, c.m, h.prior, a>>)

\* C30: a method of Html called directly returns; without a callback for it
\* in the native table it leaves the buffer and the renderer as they were,
\* and a span method answers false; with a callback the buffer is what the
\* callback left, and a span method answers true exactly when the callback
\* returned a number other than 0.
HtmlDirect ==
    HtmlCalled =>
       LET c == hist[Len(hist)].calls[1]
       IN /\ pc = "idle"
          /\ c.handled \in BOOLEAN
          /\ ~HtmlHasCallback =>
                /\ output = hist[Len(hist)].prior
                /\ rndr = hist[Len(hist)].before
                /\ c.handled = FALSE
          /\ HtmlHasCallback =>
                /\ output = NativeCalled.ob
                /\ rndr = NativeCalled.r
                /\ c.handled = (c.m \in SpanMethods /\ NativeCalled.ret # 0)

\* autolink was called on a table of contents, which has no callback for
\* it: the buffer is as it was and the answer is false
HtmlDirectWitness ==
    /\ HtmlCalled /\ ~HtmlHasCallback
    /\ hist[Len(hist)].before.kind = "Toc"
    /\ hist[Len(hist)].calls[1].m = "autolink"
    /\ hist[Len(hist)].calls[1].text = <<"a">>
    /\ output = <<"x">>

====
